---- MODULE Spec2Model ----
(***************************************************************************)
(* Tag identity and provisioning lifecycle of the Klangkiste console       *)
(* (src/unnamed/part_001): identity validator, scan-event key, the         *)
(* three-step provisioning wizard, its commit handler and the session      *)
(* persistence in sessionStorage (Spec, SpecValidator, SpecKey), the       *)
(* reuse-imported-tag card (SpecReuse), the per-box block matrix           *)
(* (SpecBlocks), the tag-delete modal (SpecDelete), unpairing of the       *)
(* selected box (SpecPairing) and the polling loops (SpecPoll).            *)
(*                                                                         *)
(* JavaScript strings are modelled as sequences of one-character strings,  *)
(* so that trimming, concatenation and the regular expression of           *)
(* isValidTagUid are computed character by character.                      *)
(***************************************************************************)
EXTENDS Integers, Sequences, FiniteSets, TLC

\* ------------------------------------------------------------------------
\* Bounds of the model
\* ------------------------------------------------------------------------

\* longest run of body characters in the inputs given to isValidTagUid
MaxBodyLen == 11

\* number of touches (status-feed or simulated) within one behaviour
MaxTouches == 2

\* ------------------------------------------------------------------------
\* Characters and strings
\* ------------------------------------------------------------------------

Lower ==
  {"a","b","c","d","e","f","g","h","i","j","k","l","m",
   "n","o","p","q","r","s","t","u","v","w","x","y","z"}

Digit == {"0","1","2","3","4","5","6","7","8","9"}

\* the character class [a-z0-9]
LowerAlnum == Lower \cup Digit

\* the characters String.prototype.trim removes (those used in the model)
WhiteSpace == {" ", "\t", "\n"}

TAG_ == <<"T","A","G","_">>

RECURSIVE trimStart(_)
trimStart(s) ==
  IF s # <<>> /\ Head(s) \in WhiteSpace THEN trimStart(Tail(s)) ELSE s

RECURSIVE trimEnd(_)
trimEnd(s) ==
  IF s # <<>> /\ s[Len(s)] \in WhiteSpace
    THEN trimEnd(SubSeq(s, 1, Len(s) - 1))
    ELSE s

\* String.prototype.trim
trim(s) == trimEnd(trimStart(s))

\* ------------------------------------------------------------------------
\* Regular expressions (the subset used by isValidTagUid)
\* ------------------------------------------------------------------------

ReBol == [type |-> "bol"]
ReEol == [type |-> "eol"]
ReClass(set) == [type |-> "class", set |-> set]
ReLit(chars) == [type |-> "lit", chars |-> chars]
ReRep(of, n) == [type |-> "rep", of |-> of, n |-> n]
ReCat(parts) == [type |-> "cat", parts |-> parts]
ReAlt(alts) == [type |-> "alt", alts |-> alts]

\* positions at which a match of re that starts at position i of s can end
\* (the position after the last matched character)
RECURSIVE ReEnds(_, _, _)
ReEnds(re, s, i) ==
  CASE re.type = "bol" -> IF i = 1 THEN {i} ELSE {}
    [] re.type = "eol" -> IF i = Len(s) + 1 THEN {i} ELSE {}
    [] re.type = "class" ->
         IF i <= Len(s) /\ s[i] \in re.set THEN {i + 1} ELSE {}
    [] re.type = "lit" ->
         IF i + Len(re.chars) - 1 <= Len(s)
            /\ SubSeq(s, i, i + Len(re.chars) - 1) = re.chars
           THEN {i + Len(re.chars)}
           ELSE {}
    [] re.type = "rep" ->
         IF re.n = 0
           THEN {i}
           ELSE UNION { ReEnds(ReRep(re.of, re.n - 1), s, j) :
                          j \in ReEnds(re.of, s, i) }
    [] re.type = "cat" ->
         IF re.parts = <<>>
           THEN {i}
           ELSE UNION { ReEnds(ReCat(Tail(re.parts)), s, j) :
                          j \in ReEnds(Head(re.parts), s, i) }
    [] re.type = "alt" ->
         UNION { ReEnds(re.alts[k], s, i) : k \in 1..Len(re.alts) }

\* RegExp.prototype.test: is there a match starting anywhere in s
ReTest(re, s) == \E i \in 1..(Len(s) + 1) : ReEnds(re, s, i) # {}

\* /^(?:[a-z0-9]{10}|TAG_[a-z0-9]{8})$/
TagUidRegex ==
  ReCat(<< ReBol,
           ReAlt(<< ReRep(ReClass(LowerAlnum), 10),
                    ReCat(<< ReLit(TAG_), ReRep(ReClass(LowerAlnum), 8) >>) >>),
           ReEol >>)

\* the same expression without the closing anchor
TagUidRegexNoEol ==
  ReCat(<< ReBol,
           ReAlt(<< ReRep(ReClass(LowerAlnum), 10),
                    ReCat(<< ReLit(TAG_), ReRep(ReClass(LowerAlnum), 8) >>) >>) >>)

isValidTagUidNoEol(uid) == ReTest(TagUidRegexNoEol, uid)

isValidTagUid(uid) == ReTest(TagUidRegex, uid)

\* ------------------------------------------------------------------------
\* Identity generators
\* ------------------------------------------------------------------------

\* const alphabet = 'abcdefghijklmnopqrstuvwxyz0123456789'
alphabet ==
  <<"a","b","c","d","e","f","g","h","i","j","k","l","m",
    "n","o","p","q","r","s","t","u","v","w","x","y","z",
    "0","1","2","3","4","5","6","7","8","9">>

\* the values Math.floor(Math.random() * alphabet.length) takes in the ten
\* rounds of one generateTagId call, for the calls the model considers
RandomDraws == { [i \in 1..10 |-> IF i = 10 THEN 35 ELSE 1] }

\* a generator that stops one character early
generateTagIdNine(r) == [i \in 1..9 |-> alphabet[r[i] + 1]]

\* generateTagId, r being the ten random indices it draws
generateTagId(r) == [i \in 1..10 |-> alphabet[r[i] + 1]]

HexDigits ==
  <<"0","1","2","3","4","5","6","7","8","9","A","B","C","D","E","F">>

\* value.toString(16).padStart(2, '0').toUpperCase()
HexOctet(v) == << HexDigits[(v \div 16) + 1], HexDigits[(v % 16) + 1] >>

RECURSIVE JoinColon(_)
JoinColon(parts) ==
  IF parts = <<>> THEN <<>>
  ELSE IF Len(parts) = 1 THEN Head(parts)
  ELSE Head(parts) \o <<":">> \o JoinColon(Tail(parts))

\* the seven bytes one generateHardwareUid call draws, for the calls the
\* model considers
ByteDraws == { [i \in 1..7 |-> IF i = 2 THEN 0 ELSE 161] }

\* generateHardwareUid, b being the seven random bytes it draws
generateHardwareUid(b) == JoinColon([i \in 1..7 |-> HexOctet(b[i])])

\* ------------------------------------------------------------------------
\* Scan events and their key
\* ------------------------------------------------------------------------

\* template-literal rendering of a non-negative integer
RECURSIVE NumStr(_)
NumStr(n) ==
  IF n < 10 THEN << HexDigits[n + 1] >>
  ELSE NumStr(n \div 10) \o << HexDigits[(n % 10) + 1] >>

\* an absent scan event (null)
NoNfc ==
  [present |-> FALSE, uid |-> <<>>, known |-> FALSE,
   hardwareUid |-> <<>>, hardware_uid |-> <<>>, at |-> 0]

\* a scan event; at = 0 stands for a timestamp that is 0 or missing, an
\* empty field for one that is '' or missing
Nfc(uid, known, hardwareUid, at) ==
  [present |-> TRUE, uid |-> uid, known |-> known,
   hardwareUid |-> hardwareUid, hardware_uid |-> <<>>, at |-> at]

\* nfc.hardwareUid || nfc.hardware_uid || ''
hardwareOf(nfc) ==
  IF nfc.hardwareUid # <<>> THEN nfc.hardwareUid ELSE nfc.hardware_uid

getNfcKey(nfc) ==
  IF ~nfc.present THEN <<>>
  ELSE (IF nfc.at = 0 THEN <<>> ELSE NumStr(nfc.at))
         \o <<":">> \o nfc.uid \o <<":">> \o hardwareOf(nfc)

\* ------------------------------------------------------------------------
\* Values the operator, the readers and the registry supply
\* ------------------------------------------------------------------------

UidGrimm == <<"z","z","9","9","z","z","9","9","z","z">>
UidShort == <<"s","h","o","r","t">>
UidPadded == <<" ","z","z","9","9","z","z","9","9","z","z"," ">>

\* UIDs a reader reports for a physical touch
FeedUids == {UidGrimm, UidShort}

\* what the operator types into the UID field of step 0
TypedUids == {UidPadded, UidShort}

\* top-level media folders offered by the dropdown of step 1
MediaFolders == {"audiobooks/grimm"}

\* the paired boxes
BoxIds == {"box-42"}

\* content of the UID field of the player's NFC controls
NfcUidInputs == {<<>>, <<"U","I","D","_","1">>}

autoReplaceMsg == "Ungueltige ID erkannt - wird automatisch ersetzt."

uidInvalidMsg ==
  "UID ungueltig. Bitte 10 Zeichen (a-z, 0-9) oder TAG_ + 8 Zeichen verwenden."

\* ------------------------------------------------------------------------
\* State
\* ------------------------------------------------------------------------

VARIABLES
  \* React state and refs of App (scanTagLabel: its input is rendered with
  \* the class is-hidden, the operator cannot type into it)
  selectedId, status, tags,
  scanTagUid, tagUidMode, tagUidError,
  tagStep, tagStepOneDone, tagStepTwoDone, tagStepMax,
  dismissedNfcKey, scanTagLabel, scanMediaPath,
  lastNfcKeyRef, tagWizardRestoredRef, simulatedNfc,
  \* sessionStorage item 'klangkiste_tag_wizard'
  sessionStorage,
  \* history: the key last recorded as dismissed, until an event with a
  \* different key is the active one
  hiddenKey,
  \* the running handleClaimTagForScan call, the calls it has made and the
  \* toasts it has shown
  claim, calls, toasts,
  \* collaborators: tag registry, the reader of each box
  registry, lastNfc,
  \* bookkeeping: touches so far; the session stored when the page was
  \* reloaded with the wizard open and no newer touch on the reader
  touches, resume,
  \* argument and result of a single isValidTagUid call
  uidArg, uidOk,
  \* two scan events and the keys getNfcKey gives them
  nfcPair, keys,
  \* the tag matrix: blockedByBox (React state), the block sets the boxes
  \* hold, the setTagBlock calls in flight, and the acknowledged toggles with
  \* blockedByBox before and after each of them
  blockedByBox, blocks, toggles, toggleLog,
  \* the reuse-imported-tag card: reuseTagUid and error (React state), the
  \* running handleReuseImportedTag call
  reuseTagUid, error, reuse,
  \* the tag-delete modal: tagDeleteTarget (React state) and the running
  \* onClick handler of one of its buttons
  tagDeleteTarget, deletion,
  \* the box list: boxes (React state), the pairing state the backend holds,
  \* the running handleUnpair call
  boxes, pairing, unpairing,
  \* the polling loops: whether App is mounted, the intervals not yet
  \* cleared, the refresh calls in flight, the number of refresh calls issued
  \* so far, boxStorage (React state), and the number of the refresh call
  \* whose answer the status was last set from; history: the refresh calls
  \* answered after their loop was torn down
  mounted, timers, requests, issued, boxStorage, statusFrom, discarded

uiVars ==
  << selectedId, status, tags, scanTagUid, tagUidMode, tagUidError,
     tagStep, tagStepOneDone, tagStepTwoDone, tagStepMax, dismissedNfcKey,
     scanTagLabel, scanMediaPath, lastNfcKeyRef, tagWizardRestoredRef,
     simulatedNfc, sessionStorage, hiddenKey >>

\* the state of the tag matrix, of the reuse card and of the key comparison
modalVars == << tagDeleteTarget, deletion >>

pairVars == << boxes, pairing, unpairing >>

pollVars ==
  << mounted, timers, requests, issued, boxStorage, statusFrom, discarded >>

sideVars ==
  << nfcPair, keys, blockedByBox, blocks, toggles, toggleLog,
     reuseTagUid, error, reuse, modalVars, pairVars, pollVars >>

vars ==
  << uiVars, claim, calls, toasts, registry, lastNfc, touches,
     resume, uidArg, uidOk, sideVars >>

\* the UIDs the registry can hold: it accepts well-formed UIDs only
RegUids ==
  { u \in { trim(t) : t \in FeedUids \cup TypedUids }
             \cup { generateTagId(r) : r \in RandomDraws } :
      isValidTagUid(u) }

\* no record for a UID
NoTag == [status |-> "absent", media_path |-> "", box |-> ""]

\* an empty tag list
NoTags == [u \in RegUids |-> NoTag]

\* status === null
NoStatus == [kind |-> "null", last_nfc |-> NoNfc]

\* a getStatus response body: last_nfc with last_nfc_at as its at
OkStatus(nfc) == [kind |-> "ok", last_nfc |-> nfc]

\* sessionStorage.getItem(...) === null
NoSession ==
  [present |-> FALSE, key |-> <<>>,
   data |-> [scanTagUid |-> <<>>, scanTagLabel |-> <<>>, scanMediaPath |-> "",
             tagUidMode |-> "keep", tagStep |-> 0, tagStepOneDone |-> FALSE,
             tagStepTwoDone |-> FALSE, tagStepMax |-> 0, tagUidError |-> "",
             simulatedNfc |-> NoNfc, dismissedNfcKey |-> <<>>]]

\* the React state of one render, with the refs and the storage item
Ui ==
  [selectedId |-> selectedId, status |-> status, tags |-> tags,
   scanTagUid |-> scanTagUid, tagUidMode |-> tagUidMode,
   tagUidError |-> tagUidError, tagStep |-> tagStep,
   tagStepOneDone |-> tagStepOneDone, tagStepTwoDone |-> tagStepTwoDone,
   tagStepMax |-> tagStepMax, dismissedNfcKey |-> dismissedNfcKey,
   scanTagLabel |-> scanTagLabel, scanMediaPath |-> scanMediaPath,
   lastNfcKeyRef |-> lastNfcKeyRef,
   tagWizardRestoredRef |-> tagWizardRestoredRef,
   simulatedNfc |-> simulatedNfc, sessionStorage |-> sessionStorage]

\* const activeNfc = useMemo(...)
activeNfcOf(u) ==
  IF u.status.kind = "ok" /\ u.status.last_nfc.present
       /\ u.status.last_nfc.known = FALSE
    THEN u.status.last_nfc
    ELSE u.simulatedNfc

\* const activeNfcKey = useMemo(...)
activeNfcKeyOf(u) ==
  IF activeNfcOf(u).present THEN getNfcKey(activeNfcOf(u)) ELSE <<>>

\* the history variable hiddenKey after a step that leaves the state u:
\* a key that setDismissedNfcKey has just recorded is remembered; it is
\* forgotten once an event with another key is the active one
HiddenKeyAfter(u) ==
  IF u.dismissedNfcKey # <<>> /\ u.dismissedNfcKey # dismissedNfcKey
    THEN u.dismissedNfcKey
  ELSE IF activeNfcKeyOf(u) \notin {<<>>, hiddenKey} THEN <<>>
  ELSE hiddenKey

SetUi(u) ==
  /\ hiddenKey' = HiddenKeyAfter(u)
  /\ selectedId' = u.selectedId
  /\ status' = u.status
  /\ tags' = u.tags
  /\ scanTagUid' = u.scanTagUid
  /\ tagUidMode' = u.tagUidMode
  /\ tagUidError' = u.tagUidError
  /\ tagStep' = u.tagStep
  /\ tagStepOneDone' = u.tagStepOneDone
  /\ tagStepTwoDone' = u.tagStepTwoDone
  /\ tagStepMax' = u.tagStepMax
  /\ dismissedNfcKey' = u.dismissedNfcKey
  /\ scanTagLabel' = u.scanTagLabel
  /\ scanMediaPath' = u.scanMediaPath
  /\ lastNfcKeyRef' = u.lastNfcKeyRef
  /\ tagWizardRestoredRef' = u.tagWizardRestoredRef
  /\ simulatedNfc' = u.simulatedNfc
  /\ sessionStorage' = u.sessionStorage

SetUiInit ==
  /\ selectedId = ""
  /\ status = NoStatus
  /\ tags = registry
  /\ scanTagUid = <<>>
  /\ tagUidMode = "keep"
  /\ tagUidError = ""
  /\ tagStep = 0
  /\ tagStepOneDone = FALSE
  /\ tagStepTwoDone = FALSE
  /\ tagStepMax = 0
  /\ dismissedNfcKey = <<>>
  /\ scanTagLabel = <<>>
  /\ scanMediaPath = ""
  /\ lastNfcKeyRef = <<>>
  /\ tagWizardRestoredRef = <<>>
  /\ simulatedNfc = NoNfc
  /\ sessionStorage = NoSession
  /\ hiddenKey = <<>>

\* the React state initial values of App (useState / useRef arguments)
InitialUi(storage) ==
  [selectedId |-> "", status |-> NoStatus, tags |-> NoTags,
   scanTagUid |-> <<>>, tagUidMode |-> "keep",
   tagUidError |-> "", tagStep |-> 0,
   tagStepOneDone |-> FALSE, tagStepTwoDone |-> FALSE,
   tagStepMax |-> 0, dismissedNfcKey |-> <<>>,
   scanTagLabel |-> <<>>, scanMediaPath |-> "",
   lastNfcKeyRef |-> <<>>, tagWizardRestoredRef |-> <<>>,
   simulatedNfc |-> NoNfc, sessionStorage |-> storage]

\* ------------------------------------------------------------------------
\* Derived values of a render
\* ------------------------------------------------------------------------

activeNfc == activeNfcOf(Ui)

activeNfcKey == activeNfcKeyOf(Ui)

\* activeNfc && dismissedNfcKey !== getNfcKey(activeNfc): the tag-detected
\* card with the wizard is rendered
BannerShown == activeNfc.present /\ dismissedNfcKey # getNfcKey(activeNfc)

\* ------------------------------------------------------------------------
\* Effects that run after a render
\* ------------------------------------------------------------------------

\* a scan detection that does not remember the key it has acted on
ScanDetectEveryPoll(u, gen) ==
  LET n == u.status.last_nfc
      key == NumStr(n.at) \o <<":">> \o n.uid
  IN
  IF u.status.kind # "ok" \/ ~n.present \/ n.uid = <<>> THEN u
  ELSE IF n.known THEN u
  ELSE
    [u EXCEPT
       !.lastNfcKeyRef = key,
       !.scanTagLabel = <<>>,
       !.scanMediaPath = "",
       !.scanTagUid = IF isValidTagUid(n.uid) THEN n.uid ELSE gen,
       !.tagUidMode = IF isValidTagUid(n.uid) THEN "keep" ELSE "new",
       !.tagUidError = IF isValidTagUid(n.uid) THEN "" ELSE autoReplaceMsg,
       !.dismissedNfcKey = <<>>,
       !.tagStep = 0,
       !.tagStepOneDone = FALSE,
       !.tagStepTwoDone = FALSE,
       !.tagStepMax = 0]

\* useEffect(..., [status, tags]): a new unknown scan event of the status
\* feed (re)initialises the wizard. u is the render, gen the UID that
\* generateTagId returns if it is called.
ScanDetect(u, gen) ==
  LET n == u.status.last_nfc
      key == NumStr(n.at) \o <<":">> \o n.uid
  IN
  IF u.status.kind # "ok" \/ ~n.present \/ n.uid = <<>> THEN u
  ELSE IF n.known THEN u
  ELSE IF u.lastNfcKeyRef = key THEN u
  ELSE
    [u EXCEPT
       !.lastNfcKeyRef = key,
       !.scanTagLabel = <<>>,
       !.scanMediaPath = "",
       !.scanTagUid = IF isValidTagUid(n.uid) THEN n.uid ELSE gen,
       !.tagUidMode = IF isValidTagUid(n.uid) THEN "keep" ELSE "new",
       !.tagUidError = IF isValidTagUid(n.uid) THEN "" ELSE autoReplaceMsg,
       !.dismissedNfcKey = <<>>,
       !.tagStep = 0,
       !.tagStepOneDone = FALSE,
       !.tagStepTwoDone = FALSE,
       !.tagStepMax = 0]

\* a restore effect that leaves the stored dismissed key aside
RestoreWizardNoDismissed(u, r) ==
  LET key == activeNfcKeyOf(r)
      item == u.sessionStorage
      data == item.data
  IN
  IF key = <<>> THEN u
  ELSE IF u.tagWizardRestoredRef = key THEN u
  ELSE IF ~item.present THEN u
  ELSE IF item.key # key THEN u
  ELSE
    [u EXCEPT
       !.scanTagUid = data.scanTagUid,
       !.scanTagLabel = data.scanTagLabel,
       !.scanMediaPath = data.scanMediaPath,
       !.tagUidMode = data.tagUidMode,
       !.tagStep = data.tagStep,
       !.tagStepOneDone = data.tagStepOneDone,
       !.tagStepTwoDone = data.tagStepTwoDone,
       !.tagStepMax = data.tagStepMax,
       !.tagUidError = data.tagUidError,
       !.simulatedNfc =
          IF ~(r.status.kind = "ok" /\ r.status.last_nfc.present)
               /\ data.simulatedNfc.present
            THEN data.simulatedNfc
            ELSE u.simulatedNfc,
       !.tagWizardRestoredRef = key]

\* a restore effect that does not compare the stored key (and leaves the
\* simulated event alone)
RestoreWizardAnyKey(u, r) ==
  LET key == activeNfcKeyOf(r)
      item == u.sessionStorage
      data == item.data
  IN
  IF key = <<>> THEN u
  ELSE IF u.tagWizardRestoredRef = key THEN u
  ELSE IF ~item.present THEN u
  ELSE
    [u EXCEPT
       !.scanTagUid = data.scanTagUid,
       !.scanTagLabel = data.scanTagLabel,
       !.scanMediaPath = data.scanMediaPath,
       !.tagUidMode = data.tagUidMode,
       !.tagStep = data.tagStep,
       !.tagStepOneDone = data.tagStepOneDone,
       !.tagStepTwoDone = data.tagStepTwoDone,
       !.tagStepMax = data.tagStepMax,
       !.tagUidError = data.tagUidError,
       !.dismissedNfcKey = data.dismissedNfcKey,
       !.tagWizardRestoredRef = key]

\* useEffect(..., [activeNfcKey, status?.last_nfc]): restore the persisted
\* wizard of the active key. r is the render whose values the effect closes
\* over, u the state with the updates queued so far in the same flush.
RestoreWizard(u, r) ==
  LET key == activeNfcKeyOf(r)
      item == u.sessionStorage
      data == item.data
  IN
  IF key = <<>> THEN u
  ELSE IF u.tagWizardRestoredRef = key THEN u
  ELSE IF ~item.present THEN u
  ELSE IF item.key # key THEN u
  ELSE
    [u EXCEPT
       !.scanTagUid = data.scanTagUid,
       !.scanTagLabel = data.scanTagLabel,
       !.scanMediaPath = data.scanMediaPath,
       !.tagUidMode = data.tagUidMode,
       !.tagStep = data.tagStep,
       !.tagStepOneDone = data.tagStepOneDone,
       !.tagStepTwoDone = data.tagStepTwoDone,
       !.tagStepMax = data.tagStepMax,
       !.tagUidError = data.tagUidError,
       !.simulatedNfc =
          IF ~(r.status.kind = "ok" /\ r.status.last_nfc.present)
               /\ data.simulatedNfc.present
            THEN data.simulatedNfc
            ELSE u.simulatedNfc,
       !.dismissedNfcKey = data.dismissedNfcKey,
       !.tagWizardRestoredRef = key]

\* a persist effect that leaves the session of another key in place
PersistWizardKeepOther(r) ==
  IF activeNfcKeyOf(r) = <<>>
       \/ (r.sessionStorage.present
             /\ r.sessionStorage.key # activeNfcKeyOf(r))
    THEN r.sessionStorage
  ELSE
    [present |-> TRUE,
     key |-> activeNfcKeyOf(r),
     data |-> [scanTagUid |-> r.scanTagUid,
               scanTagLabel |-> r.scanTagLabel,
               scanMediaPath |-> r.scanMediaPath,
               tagUidMode |-> r.tagUidMode,
               tagStep |-> r.tagStep,
               tagStepOneDone |-> r.tagStepOneDone,
               tagStepTwoDone |-> r.tagStepTwoDone,
               tagStepMax |-> r.tagStepMax,
               tagUidError |-> r.tagUidError,
               simulatedNfc |-> r.simulatedNfc,
               dismissedNfcKey |-> r.dismissedNfcKey]]

\* useEffect(..., [activeNfcKey, scanTagUid, ...]): the storage item after
\* the persist effect of render r
PersistWizard(r) ==
  IF activeNfcKeyOf(r) = <<>> THEN r.sessionStorage
  ELSE
    [present |-> TRUE,
     key |-> activeNfcKeyOf(r),
     data |-> [scanTagUid |-> r.scanTagUid,
               scanTagLabel |-> r.scanTagLabel,
               scanMediaPath |-> r.scanMediaPath,
               tagUidMode |-> r.tagUidMode,
               tagStep |-> r.tagStep,
               tagStepOneDone |-> r.tagStepOneDone,
               tagStepTwoDone |-> r.tagStepTwoDone,
               tagStepMax |-> r.tagStepMax,
               tagUidError |-> r.tagUidError,
               simulatedNfc |-> r.simulatedNfc,
               dismissedNfcKey |-> r.dismissedNfcKey]]

\* the value of the dependency status?.last_nfc as Object.is sees it
LastNfcDep(u) ==
  IF u.status.kind # "ok" THEN "undefined"
  ELSE IF ~u.status.last_nfc.present THEN "null"
  ELSE "object"

\* the React state of a render without refs and storage
StateOf(u) ==
  [u EXCEPT !.lastNfcKeyRef = <<>>, !.tagWizardRestoredRef = <<>>,
            !.sessionStorage = NoSession]

\* One pass of the effects after render r, in the order of their
\* declaration, followed by the renders their state updates cause.
\* prev is the render before r, polled says that r was caused by a status
\* response (a new last_nfc object).
RECURSIVE Flush(_, _, _, _)
Flush(r, prev, polled, gen) ==
  LET a == ScanDetect(r, gen)
      restoreDue ==
        \/ activeNfcKeyOf(r) # activeNfcKeyOf(prev)
        \/ LastNfcDep(r) # LastNfcDep(prev)
        \/ polled /\ LastNfcDep(r) = "object"
      b == IF restoreDue THEN RestoreWizard(a, r) ELSE a
      c == [b EXCEPT !.sessionStorage = PersistWizard(r)]
  IN IF StateOf(c) # StateOf(r) THEN Flush(c, r, FALSE, gen) ELSE c

\* ------------------------------------------------------------------------
\* The tag registry and the box (collaborators behind api.js)
\* ------------------------------------------------------------------------

\* claimTag(uid, label): the response detail
ClaimTagDetail(reg, uid) ==
  IF uid \notin RegUids THEN "invalid uid"
  ELSE IF reg[uid].status # "absent" THEN "uid exists"
  ELSE "ok"

\* claimTag(uid, label): the registry after a successful claim
ClaimTagApply(reg, uid) ==
  [reg EXCEPT ![uid] = [status |-> "NEW", media_path |-> "", box |-> ""]]

\* markTagWritten(uid): the response detail
MarkTagWrittenDetail(reg, uid) ==
  IF uid \notin RegUids THEN "invalid uid"
  ELSE IF reg[uid].status = "absent" THEN "not found"
  ELSE "ok"

\* markTagWritten(uid): the registry after a successful call
MarkTagWrittenApply(reg, uid) == [reg EXCEPT ![uid].status = "WRITTEN"]

\* setTagMedia(uid, mediaPath) and assignTag(uid, boxId): the response detail
TagCallDetail(reg, uid) ==
  IF uid \notin RegUids \/ reg[uid].status = "absent" THEN "not found" ELSE "ok"

SetTagMediaApply(reg, uid, path) == [reg EXCEPT ![uid].media_path = path]

AssignTagApply(reg, uid, boxId) == [reg EXCEPT ![uid].box = boxId]

\* a transport failure, which any call can meet
Network == "network"

\* ------------------------------------------------------------------------
\* Initial state
\* ------------------------------------------------------------------------

\* the registry when the console is opened: empty, or holding a tag that an
\* earlier visit has written
InitialRegistries ==
  { NoTags,
    [NoTags EXCEPT ![UidGrimm] =
       [status |-> "WRITTEN", media_path |-> "", box |-> ""]] }

IdleClaim ==
  [pc |-> "idle", outcome |-> "none", currentUid |-> <<>>, label |-> <<>>,
   mediaPath |-> "", selectedId |-> "", knownFalse |-> FALSE,
   activeNfc |-> NoNfc, existing |-> "absent", step |-> 0,
   oneDone |-> FALSE, twoDone |-> FALSE, regBefore |-> NoTag]

\* the boxes and the tags of the tag matrix
MatrixBoxes == {"box-42", "box-43"}

MatrixUids == {UidGrimm, <<"a","b","1","2","c","d","3","4","e","f">>}

\* useState({}) of blockedByBox; a box without an entry reads as []
NoBlocks == [b \in MatrixBoxes |-> {}]

\* no handleReuseImportedTag call is running
IdleReuse == [pc |-> "idle", uid |-> <<>>, selectedId |-> ""]

\* no key has been computed
NoKeys == [pc |-> "idle", a |-> <<>>, b |-> <<>>]

KeyIdle ==
  /\ nfcPair = << NoNfc, NoNfc >>
  /\ keys = NoKeys

\* the tag matrix before the block sets have been loaded
BlocksIdle ==
  /\ blockedByBox = NoBlocks
  /\ blocks = NoBlocks
  /\ toggles = <<>>
  /\ toggleLog = <<>>

\* the reuse card with nothing chosen
ReuseIdle ==
  /\ reuseTagUid = <<>>
  /\ error = ""
  /\ reuse = IdleReuse

\* the tag matrix, the reuse card and the key comparison before anything
\* has happened in them
IdleDeletion == [pc |-> "idle", uid |-> <<>>, button |-> "", phase |-> ""]

\* the tag-delete modal is closed
ModalIdle ==
  /\ tagDeleteTarget = <<>>
  /\ deletion = IdleDeletion

AllPaired == [b \in MatrixBoxes |-> "PAIRED"]

IdleUnpair == [pc |-> "idle", boxId |-> ""]

\* every box is paired and listed, no unpair is running
PairIdle ==
  /\ boxes = AllPaired
  /\ pairing = AllPaired
  /\ unpairing = IdleUnpair

\* no refresh call of a polling loop is in flight
PollIdle ==
  /\ mounted = TRUE
  /\ timers = {}
  /\ requests = {}
  /\ issued = 0
  /\ boxStorage = {}
  /\ statusFrom = 0
  /\ discarded = {}

SideIdle ==
  KeyIdle /\ BlocksIdle /\ ReuseIdle /\ ModalIdle /\ PairIdle /\ PollIdle

Init ==
  /\ SideIdle
  /\ registry \in InitialRegistries
  /\ SetUiInit
  /\ claim = IdleClaim
  /\ calls = <<>>
  /\ toasts = <<>>
  /\ lastNfc = [b \in BoxIds |-> NoNfc]
  /\ touches = 0
  /\ resume = NoSession
  /\ uidArg = <<>>
  /\ uidOk = "unset"

\* ------------------------------------------------------------------------
\* Operator and environment actions
\* ------------------------------------------------------------------------

handlerVars == << claim, calls, toasts >>

GenIds == { generateTagId(r) : r \in RandomDraws }

\* a rendered state after its effects have run; u is the state the handler
\* leaves, polled says a status response caused the render
Rendered(u, polled, gen) == Flush(u, Ui, polled, gen)

\* onClick={() => setSelectedId(box.box_id)}
SelectBox ==
  \E b \in BoxIds :
    /\ claim.pc # "done"
    /\ selectedId # b
    /\ SetUi(Rendered([Ui EXCEPT !.selectedId = b], FALSE, <<>>))
    /\ UNCHANGED << handlerVars, registry, lastNfc, touches,
                    resume, uidArg, uidOk, sideVars >>

\* refreshStatus: a getStatus response of the selected box arrives
StatusResponse ==
  \E gen \in GenIds :
    /\ claim.pc # "done"
    /\ selectedId # ""
    /\ SetUi(Rendered([Ui EXCEPT !.status = OkStatus(lastNfc[selectedId])],
                      TRUE, gen))
    /\ UNCHANGED << handlerVars, registry, lastNfc, touches,
                    resume, uidArg, uidOk, sideVars >>

\* the box recognises a tag that the registry has assigned to it; an
\* assignment the box has not fetched yet is reported as unknown
KnownReports(reg, b, uid) ==
  IF uid \in RegUids /\ reg[uid].box = b THEN BOOLEAN ELSE {FALSE}

\* a tag is put on the reader of a box: the box reports a new last_nfc
Touch ==
  \E b \in BoxIds, uid \in FeedUids :
    \E known \in KnownReports(registry, b, uid) :
      /\ claim.pc # "done"
      /\ touches < MaxTouches
      /\ touches' = touches + 1
      /\ lastNfc' = [lastNfc EXCEPT ![b] = Nfc(uid, known, <<>>, touches + 1)]
      /\ resume' = NoSession
      /\ UNCHANGED << uiVars, handlerVars, registry, uidArg, uidOk, sideVars >>

\* handlePlayerCommand('nfc_on', { uid: nfcUid })
PlayerNfcOn ==
  \E input \in NfcUidInputs, bytes \in ByteDraws, gen \in GenIds :
    /\ claim.pc = "idle"
    /\ selectedId # ""
    /\ IF trim(input) = <<>>
         THEN /\ touches < MaxTouches
              /\ touches' = touches + 1
              /\ SetUi(Rendered(
                   [Ui EXCEPT
                      !.simulatedNfc =
                         Nfc(<<>>, FALSE, generateHardwareUid(bytes), touches + 1),
                      !.scanTagLabel = <<>>,
                      !.scanMediaPath = "",
                      !.scanTagUid = IF scanTagUid = <<>> THEN gen ELSE @,
                      !.tagUidMode = "new",
                      !.tagStep = 0,
                      !.tagStepOneDone = FALSE,
                      !.tagStepTwoDone = FALSE,
                      !.tagStepMax = 0],
                   FALSE, gen))
         ELSE /\ touches' = touches
              /\ SetUi(Rendered([Ui EXCEPT !.simulatedNfc = NoNfc], FALSE, gen))
    /\ resume' = NoSession
    /\ UNCHANGED << handlerVars, registry, lastNfc, uidArg, uidOk, sideVars >>

\* handlePlayerCommand('nfc_off', { uid: nfcUid }) with an empty UID field
PlayerNfcOff ==
  /\ claim.pc = "idle"
  /\ selectedId # ""
  /\ SetUi(Rendered(
       [Ui EXCEPT
          !.simulatedNfc = NoNfc,
          !.scanTagUid = <<>>,
          !.scanTagLabel = <<>>,
          !.scanMediaPath = "",
          !.tagUidMode = "keep",
          !.tagStep = 0,
          !.tagStepOneDone = FALSE,
          !.tagStepTwoDone = FALSE,
          !.tagStepMax = 0],
       FALSE, <<>>))
  /\ resume' = NoSession
  /\ UNCHANGED << handlerVars, registry, lastNfc, touches,
                  uidArg, uidOk, sideVars >>

\* ------------------------------------------------------------------------
\* The wizard (rendered while the tag-detected card is shown)
\* ------------------------------------------------------------------------

\* <InputText value={scanTagUid} onChange=... readOnly={tagUidMode === 'keep'}>
EditUid ==
  \E typed \in TypedUids :
    /\ claim.pc = "idle"
    /\ BannerShown
    /\ tagStep = 0
    /\ tagUidMode # "keep"
    /\ SetUi(Rendered([Ui EXCEPT !.scanTagUid = typed], FALSE, <<>>))
    /\ resume' = NoSession
    /\ UNCHANGED << handlerVars, registry, lastNfc, touches,
                    uidArg, uidOk, sideVars >>

\* <Button label="Neue UID vergeben">
NewUid ==
  \E gen \in GenIds :
    /\ claim.pc = "idle"
    /\ BannerShown
    /\ tagStep = 0
    /\ SetUi(Rendered([Ui EXCEPT !.tagUidMode = "new", !.scanTagUid = gen],
                      FALSE, <<>>))
    /\ resume' = NoSession
    /\ UNCHANGED << handlerVars, registry, lastNfc, touches,
                    uidArg, uidOk, sideVars >>

\* the continue handler validating the UID as typed, without trimming it
ContinueStepZeroUiNoTrim ==
  IF ~isValidTagUid(scanTagUid)
    THEN [Ui EXCEPT !.tagUidError = uidInvalidMsg]
    ELSE [Ui EXCEPT
            !.tagUidError =
               IF @ # "" /\ @ # autoReplaceMsg THEN "" ELSE @,
            !.tagStepOneDone = TRUE,
            !.tagStepMax = 1,
            !.tagStep = 1]

\* <Button label="Weiter zu Medien">: the state the handler leaves
ContinueStepZeroUi ==
  IF ~isValidTagUid(trim(scanTagUid))
    THEN [Ui EXCEPT !.tagUidError = uidInvalidMsg]
    ELSE [Ui EXCEPT
            !.tagUidError =
               IF @ # "" /\ @ # autoReplaceMsg THEN "" ELSE @,
            !.tagStepOneDone = TRUE,
            !.tagStepMax = 1,
            !.tagStep = 1]

ContinueStepZero ==
  /\ claim.pc = "idle"
  /\ BannerShown
  /\ tagStep = 0
  /\ SetUi(Rendered(ContinueStepZeroUi, FALSE, <<>>))
  /\ resume' = NoSession
  /\ UNCHANGED << handlerVars, registry, lastNfc, touches,
                  uidArg, uidOk, sideVars >>

\* <Dropdown value={scanMediaPath} onChange=... disabled={!tagStepOneDone}>
ChooseMedia ==
  \E folder \in MediaFolders :
    /\ claim.pc = "idle"
    /\ BannerShown
    /\ tagStep = 1
    /\ tagStepOneDone
    /\ scanMediaPath # folder
    /\ SetUi(Rendered([Ui EXCEPT !.scanMediaPath = folder], FALSE, <<>>))
    /\ resume' = NoSession
    /\ UNCHANGED << handlerVars, registry, lastNfc, touches,
                    uidArg, uidOk, sideVars >>

\* <Button label="Weiter zur Anlage" disabled={!tagStepOneDone}>
ContinueStepOne ==
  /\ claim.pc = "idle"
  /\ BannerShown
  /\ tagStep = 1
  /\ tagStepOneDone
  /\ SetUi(Rendered([Ui EXCEPT !.tagStepTwoDone = TRUE,
                               !.tagStepMax = 2,
                               !.tagStep = 2],
                    FALSE, <<>>))
  /\ resume' = NoSession
  /\ UNCHANGED << handlerVars, registry, lastNfc, touches,
                  uidArg, uidOk, sideVars >>

\* a stepper that enters every step asked for
onChangeStepAny(index) == index

\* <Stepper onChangeStep=...>: the step shown after a click on header index
onChangeStep(index) == IF index <= tagStepMax THEN index ELSE tagStep

ChangeStep ==
  \E index \in 0..2 :
    /\ claim.pc = "idle"
    /\ BannerShown
    /\ index # tagStep
    /\ SetUi(Rendered([Ui EXCEPT !.tagStep = onChangeStep(index)], FALSE, <<>>))
    /\ resume' = NoSession
    /\ UNCHANGED << handlerVars, registry, lastNfc, touches,
                    uidArg, uidOk, sideVars >>

\* ------------------------------------------------------------------------
\* handleClaimTagForScan, one action per await
\* ------------------------------------------------------------------------

Toast(severity, detail) == [severity |-> severity, detail |-> detail]

Call(op, uid, arg, detail) ==
  [op |-> op, uid |-> uid, arg |-> arg, ok |-> (detail = "ok"), detail |-> detail]

\* an assignment that does not ask for a media folder
shouldAssignWithoutMedia(c) == c.selectedId # "" /\ c.knownFalse

\* selectedId && status?.last_nfc?.known === false && scanMediaPath
shouldAssign(c) == c.selectedId # "" /\ c.knownFalse /\ c.mediaPath # ""

\* <Button label="Daten zum Tag speichern"
\*         disabled={!tagStepOneDone || !tagStepTwoDone}> in the third panel,
\* without the panel being the one shown
CommitEnabledAnyPanel == BannerShown /\ tagStepOneDone /\ tagStepTwoDone

\* <Button label="Daten zum Tag speichern"
\*         disabled={!tagStepOneDone || !tagStepTwoDone}> in the third panel
CommitEnabled ==
  BannerShown /\ tagStep = 2 /\ tagStepOneDone /\ tagStepTwoDone

\* the values handleClaimTagForScan closes over when it is called
ClaimClosure ==
  LET currentUid == trim(scanTagUid) IN
  [pc |-> "start", outcome |-> "none",
   currentUid |-> currentUid,
   label |-> trim(scanTagLabel),
   mediaPath |-> scanMediaPath,
   selectedId |-> selectedId,
   knownFalse |-> (status.kind = "ok" /\ status.last_nfc.present
                     /\ ~status.last_nfc.known),
   activeNfc |-> activeNfc,
   existing |-> IF currentUid \in RegUids THEN tags[currentUid].status
                ELSE "absent",
   step |-> tagStep, oneDone |-> tagStepOneDone, twoDone |-> tagStepTwoDone,
   regBefore |-> IF currentUid \in RegUids THEN registry[currentUid]
                 ELSE NoTag]

\* lines 1288-1321 up to the next await: the state after the tag has been
\* claimed or found written
AfterClaimUi(u, c) ==
  LET d == [u EXCEPT
              !.dismissedNfcKey =
                 IF c.activeNfc.present THEN getNfcKey(c.activeNfc) ELSE @]
  IN IF shouldAssign(c) THEN d
     ELSE IF c.selectedId # "" /\ c.knownFalse
       THEN [d EXCEPT !.simulatedNfc = NoNfc]
       ELSE d

AfterClaimToasts(c) ==
  IF shouldAssign(c) THEN << Toast("success", "Tag geschrieben.") >>
  ELSE IF c.selectedId # "" /\ c.knownFalse
    THEN << Toast("success", "Tag geschrieben."),
            Toast("success", "Tag gespeichert. Medium fehlt noch.") >>
    ELSE << Toast("success", "Tag geschrieben.") >>

AfterClaimPc(c) == IF shouldAssign(c) THEN "setTagMedia" ELSE "getTags"

\* lines 1257-1287 with every existing tag marked written, whatever its status
firstCallMarksAny(existing) ==
  IF existing = "absent" THEN "claimTag" ELSE "markTagWritten"

\* lines 1257-1287: the registry call the handler starts with. existing is
\* the status of tags.find((tag) => tag.uid === currentUid), "absent" if
\* there is none
firstCall(existing) ==
  IF existing = "absent" THEN "claimTag"
  ELSE IF existing = "NEW" THEN "markTagWritten"
  ELSE "none"

\* the click on the commit button, up to the first await
ClaimStart ==
  LET c == ClaimClosure
      u == [Ui EXCEPT !.tagUidError = ""]
  IN
  /\ claim.pc = "idle"
  /\ CommitEnabled
  /\ calls' = <<>>
  /\ IF firstCall(c.existing) # "none"
       THEN /\ claim' = [c EXCEPT !.pc = firstCall(c.existing)]
            /\ toasts' = <<>>
            /\ SetUi(Rendered(u, FALSE, <<>>))
       ELSE /\ claim' = [c EXCEPT !.pc = AfterClaimPc(c)]
            /\ toasts' = AfterClaimToasts(c)
            /\ SetUi(Rendered(AfterClaimUi(u, c), FALSE, <<>>))
  /\ resume' = NoSession
  /\ UNCHANGED << registry, lastNfc, touches, uidArg, uidOk, sideVars >>

\* the handler returns after a failed call: lines 1261-1271, 1275-1285,
\* 1297-1300, 1303-1306
FailedUi(u, op, detail) ==
  IF op \in {"claimTag", "markTagWritten"} /\ detail = "invalid uid"
    THEN [u EXCEPT !.tagUidError = uidInvalidMsg]
    ELSE u

FailedToasts(op, detail) ==
  IF op \in {"claimTag", "markTagWritten"} /\ detail = "invalid uid"
    THEN <<>>
    ELSE << Toast("error", detail) >>

\* const written = await markTagWritten(currentUid)
MarkTagWrittenResponse ==
  \E detail \in {MarkTagWrittenDetail(registry, claim.currentUid), Network} :
    /\ claim.pc = "markTagWritten"
    /\ calls' = Append(calls, Call("markTagWritten", claim.currentUid, "", detail))
    /\ IF detail = "ok"
         THEN /\ registry' = MarkTagWrittenApply(registry, claim.currentUid)
              /\ claim' = [claim EXCEPT !.pc = AfterClaimPc(claim)]
              /\ toasts' = toasts \o AfterClaimToasts(claim)
              /\ SetUi(Rendered(AfterClaimUi(Ui, claim), FALSE, <<>>))
         ELSE /\ registry' = registry
              /\ claim' = [claim EXCEPT !.pc = "done", !.outcome = "failed"]
              /\ toasts' = toasts \o FailedToasts("markTagWritten", detail)
              /\ SetUi(Rendered(FailedUi(Ui, "markTagWritten", detail), FALSE, <<>>))
    /\ UNCHANGED << lastNfc, touches, resume, uidArg, uidOk, sideVars >>

\* const response = await claimTag(currentUid, scanTagLabel.trim())
ClaimTagResponse ==
  \E detail \in {ClaimTagDetail(registry, claim.currentUid), Network} :
    /\ claim.pc = "claimTag"
    /\ calls' = Append(calls, Call("claimTag", claim.currentUid, "", detail))
    /\ IF detail = "ok"
         THEN /\ registry' = ClaimTagApply(registry, claim.currentUid)
              /\ claim' = [claim EXCEPT !.pc = AfterClaimPc(claim)]
              /\ toasts' = toasts \o AfterClaimToasts(claim)
              /\ SetUi(Rendered(
                   AfterClaimUi([Ui EXCEPT !.scanTagUid = claim.currentUid],
                                claim),
                   FALSE, <<>>))
         ELSE /\ registry' = registry
              /\ claim' = [claim EXCEPT !.pc = "done", !.outcome = "failed"]
              /\ toasts' = toasts \o FailedToasts("claimTag", detail)
              /\ SetUi(Rendered(FailedUi(Ui, "claimTag", detail), FALSE, <<>>))
    /\ UNCHANGED << lastNfc, touches, resume, uidArg, uidOk, sideVars >>

\* const mediaSet = await setTagMedia(currentUid, scanMediaPath)
SetTagMediaResponse ==
  \E detail \in {TagCallDetail(registry, claim.currentUid), Network} :
    /\ claim.pc = "setTagMedia"
    /\ calls' = Append(calls, Call("setTagMedia", claim.currentUid,
                                   claim.mediaPath, detail))
    /\ IF detail = "ok"
         THEN /\ registry' = SetTagMediaApply(registry, claim.currentUid,
                                              claim.mediaPath)
              /\ claim' = [claim EXCEPT !.pc = "assignTag"]
              /\ toasts' = toasts
              /\ UNCHANGED uiVars
         ELSE /\ registry' = registry
              /\ claim' = [claim EXCEPT !.pc = "done", !.outcome = "failed"]
              /\ toasts' = toasts \o FailedToasts("setTagMedia", detail)
              /\ SetUi(Rendered(FailedUi(Ui, "setTagMedia", detail), FALSE, <<>>))
    /\ UNCHANGED << lastNfc, touches, resume, uidArg, uidOk, sideVars >>

\* lines 1312-1316: the wizard fields are cleared
ClearedUi(u) ==
  [u EXCEPT !.scanTagUid = <<>>, !.scanTagLabel = <<>>,
            !.scanMediaPath = "", !.simulatedNfc = NoNfc]

\* const assigned = await assignTag(currentUid, selectedId)
AssignTagResponse ==
  \E detail \in {TagCallDetail(registry, claim.currentUid), Network} :
    /\ claim.pc = "assignTag"
    /\ calls' = Append(calls, Call("assignTag", claim.currentUid,
                                   claim.selectedId, detail))
    /\ IF detail = "ok"
         THEN /\ registry' = AssignTagApply(registry, claim.currentUid,
                                            claim.selectedId)
              /\ toasts' = Append(toasts, Toast("success", "Tag zugeordnet."))
              /\ IF claim.activeNfc.present /\ ~claim.activeNfc.known
                   \* handlePlayerCommand('nfc_on', { uid: currentUid })
                   THEN /\ claim' = [claim EXCEPT !.pc = "sendCommand"]
                        /\ SetUi(Rendered([Ui EXCEPT !.simulatedNfc = NoNfc],
                                          FALSE, <<>>))
                   ELSE /\ claim' = [claim EXCEPT !.pc = "getTags"]
                        /\ SetUi(Rendered(ClearedUi(Ui), FALSE, <<>>))
         ELSE /\ registry' = registry
              /\ claim' = [claim EXCEPT !.pc = "done", !.outcome = "failed"]
              /\ toasts' = toasts \o FailedToasts("assignTag", detail)
              /\ SetUi(Rendered(FailedUi(Ui, "assignTag", detail), FALSE, <<>>))
    /\ UNCHANGED << lastNfc, touches, resume, uidArg, uidOk, sideVars >>

\* await sendCommand(selectedId, 'nfc_on', { uid }) in handlePlayerCommand:
\* the response is not looked at
SendCommandResponse ==
  \E detail \in {"ok", Network} :
    /\ claim.pc = "sendCommand"
    /\ calls' = Append(calls, Call("sendCommand", claim.currentUid,
                                   "nfc_on", detail))
    /\ claim' = [claim EXCEPT !.pc = "getTags"]
    /\ SetUi(Rendered(ClearedUi(Ui), FALSE, <<>>))
    /\ UNCHANGED << toasts, registry, lastNfc, touches, resume,
                    uidArg, uidOk, sideVars >>

\* const updated = await getTags()
GetTagsResponse ==
  \E detail \in {"ok", Network} :
    /\ claim.pc = "getTags"
    /\ calls' = Append(calls, Call("getTags", <<>>, "", detail))
    /\ claim' = IF claim.selectedId # ""
                  THEN [claim EXCEPT !.pc = "getBoxTags"]
                  ELSE [claim EXCEPT !.pc = "done", !.outcome = "ok"]
    /\ SetUi(Rendered([Ui EXCEPT !.tags = IF detail = "ok" THEN registry ELSE @],
                      FALSE, <<>>))
    /\ UNCHANGED << toasts, registry, lastNfc, touches, resume,
                    uidArg, uidOk, sideVars >>

\* const updatedBoxTags = await getBoxTags(selectedId)
GetBoxTagsResponse ==
  \E detail \in {"ok", Network} :
    /\ claim.pc = "getBoxTags"
    /\ calls' = Append(calls, Call("getBoxTags", <<>>, claim.selectedId, detail))
    /\ claim' = [claim EXCEPT !.pc = "done", !.outcome = "ok"]
    /\ UNCHANGED << uiVars, toasts, registry, lastNfc, touches,
                    resume, uidArg, uidOk, sideVars >>

\* ------------------------------------------------------------------------
\* Page reload
\* ------------------------------------------------------------------------

\* the browser reloads the page while no handler is running: React state and
\* refs start over, sessionStorage survives; the getTags call of the mount
\* effect (refreshTags) is answered before the operator acts
Reload ==
  /\ claim.pc = "idle"
  /\ SetUi([InitialUi(sessionStorage) EXCEPT !.tags = registry])
  /\ resume' = IF /\ BannerShown
                  /\ status.kind = "ok"
                  /\ status.last_nfc = lastNfc[selectedId]
                 THEN sessionStorage
                 ELSE NoSession
  /\ UNCHANGED << handlerVars, registry, lastNfc, touches, uidArg, uidOk, sideVars >>

\* the handler has returned and its toasts have expired (life: 4000)
ClaimSettled ==
  /\ claim.pc = "done"
  /\ claim' = IdleClaim
  /\ calls' = <<>>
  /\ toasts' = <<>>
  /\ UNCHANGED << uiVars, registry, lastNfc, touches, resume,
                  uidArg, uidOk, sideVars >>

Next ==
  \/ SelectBox
  \/ StatusResponse
  \/ Touch
  \/ PlayerNfcOn
  \/ PlayerNfcOff
  \/ EditUid
  \/ NewUid
  \/ ContinueStepZero
  \/ ChooseMedia
  \/ ContinueStepOne
  \/ ChangeStep
  \/ ClaimStart
  \/ MarkTagWrittenResponse
  \/ ClaimTagResponse
  \/ SetTagMediaResponse
  \/ AssignTagResponse
  \/ SendCommandResponse
  \/ GetTagsResponse
  \/ GetBoxTagsResponse
  \/ ClaimSettled
  \/ Reload

Spec == Init /\ [][Next]_vars

\* ------------------------------------------------------------------------
\* The identity validator on its own: one isValidTagUid call per behaviour
\* ------------------------------------------------------------------------

\* what may precede the body of a tested string
TestPrefixes ==
  { <<>>, TAG_, <<"t","a","g","_">>, <<"T","A","G">>, <<" ">> }

\* characters placed at one position of a body of "a"s
TestChars == {"9", "A", "_", "-", " ", "\n"}

\* bodies of up to MaxBodyLen characters: all "a", or all "a" but one
TestBodies ==
  UNION { { [i \in 1..n |-> "a"] }
            \cup { [i \in 1..n |-> IF i = k THEN c ELSE "a"] :
                     k \in 1..n, c \in TestChars } :
          n \in 0..MaxBodyLen }

\* the strings given to isValidTagUid
TestUids == { p \o b : p \in TestPrefixes, b \in TestBodies }

InitValidator ==
  /\ SideIdle
  /\ registry = NoTags
  /\ SetUiInit
  /\ claim = IdleClaim
  /\ calls = <<>>
  /\ toasts = <<>>
  /\ lastNfc = [b \in BoxIds |-> NoNfc]
  /\ touches = 0
  /\ resume = NoSession
  /\ uidArg \in TestUids
  /\ uidOk = "unset"

\* uidOk = isValidTagUid(uidArg)
Validate ==
  /\ uidOk = "unset"
  /\ uidOk' = IF isValidTagUid(uidArg) THEN "accepted" ELSE "rejected"
  /\ UNCHANGED << uiVars, handlerVars, registry, lastNfc, touches,
                  resume, uidArg, sideVars >>

NextValidator == Validate

SpecValidator == InitValidator /\ [][NextValidator]_vars

\* ------------------------------------------------------------------------
\* Properties
\* ------------------------------------------------------------------------

\* the two accepted shapes, stated on the characters of the string
IsLowerAlnumRun(s, from, to) == \A i \in from..to : s[i] \in LowerAlnum

HasTagUidShape(s) ==
  \/ Len(s) = 10 /\ IsLowerAlnumRun(s, 1, 10)
  \/ Len(s) = 12 /\ SubSeq(s, 1, 4) = TAG_ /\ IsLowerAlnumRun(s, 5, 12)

\* C1: isValidTagUid accepts a string if and only if it is exactly ten
\* characters of [a-z0-9], or TAG_ followed by exactly eight characters of
\* [a-z0-9]; every other string is rejected.
C1_ValidIffShape ==
  uidOk # "unset" => (uidOk = "accepted" <=> HasTagUidShape(uidArg))

\* a TAG_ identity with eight characters has been accepted
C1_Witness ==
  /\ uidOk = "accepted"
  /\ Len(uidArg) = 12
  /\ SubSeq(uidArg, 1, 4) = TAG_

\* ---- the commit handler ----

\* the calls of a commit the registry and the box act on, in their order
CallRank(op) ==
  CASE op \in {"claimTag", "markTagWritten"} -> 1
    [] op = "setTagMedia" -> 2
    [] op = "assignTag" -> 3
    [] op = "sendCommand" -> 4
    [] OTHER -> 5

IsCommitCall(call) == CallRank(call.op) <= 4

\* the failure of a call has been shown: an error toast with its detail, or
\* the inline UID error for the detail 'invalid uid'
Reported(call) ==
  \/ \E k \in 1..Len(toasts) :
        toasts[k].severity = "error" /\ toasts[k].detail = call.detail
  \/ call.detail = "invalid uid" /\ tagUidError = uidInvalidMsg

\* C2: within one commit the calls are issued in the order claim or
\* mark-written, setTagMedia, assignTag, simulate command, each only after
\* the call before it succeeded; a failed call is reported, none is issued
\* twice, and no compensating call is made.
C2_CallsOrderedFailureReported ==
  /\ \A i, j \in 1..Len(calls) :
        (i < j /\ IsCommitCall(calls[j]))
          => /\ CallRank(calls[i].op) < CallRank(calls[j].op)
             /\ calls[i].ok
  /\ \A i \in 1..Len(calls) :
        /\ calls[i].op \notin {"deleteTag", "unassignTag"}
        /\ (IsCommitCall(calls[i]) /\ ~calls[i].ok) => Reported(calls[i])

\* C3: a commit of a valid, unregistered UID with a media folder on an
\* unknown scan event of the selected box, all of whose calls succeed, ends
\* with the tag WRITTEN, its media folder set, the tag assigned to the box
\* and nfc_on sent with the UID.
C3_FreshCommitEndsWritten ==
  ( /\ claim.pc = "done"
    /\ claim.outcome = "ok"
    /\ claim.existing = "absent"
    /\ HasTagUidShape(claim.currentUid)
    /\ claim.mediaPath # ""
    /\ claim.selectedId # ""
    /\ claim.knownFalse
    /\ \A i \in 1..Len(calls) : calls[i].ok )
  => /\ registry[claim.currentUid].status = "WRITTEN"
     /\ registry[claim.currentUid].media_path = claim.mediaPath
     /\ registry[claim.currentUid].box = claim.selectedId
     /\ \E i \in 1..Len(calls) :
          /\ calls[i].op = "sendCommand"
          /\ calls[i].arg = "nfc_on"
          /\ calls[i].uid = claim.currentUid

\* ---- session persistence ----

\* the wizard fields of the current render, as the persist effect stores them
WizardData ==
  [scanTagUid |-> scanTagUid, scanTagLabel |-> scanTagLabel,
   scanMediaPath |-> scanMediaPath, tagUidMode |-> tagUidMode,
   tagStep |-> tagStep, tagStepOneDone |-> tagStepOneDone,
   tagStepTwoDone |-> tagStepTwoDone, tagStepMax |-> tagStepMax,
   tagUidError |-> tagUidError, simulatedNfc |-> simulatedNfc,
   dismissedNfcKey |-> dismissedNfcKey]

\* C4: after a reload during the provisioning of a touch with key K, once
\* the box is selected again and its status has arrived, the wizard is back
\* for K with the step, flags, highest unlocked step and working values last
\* persisted for K, whether K came from the status feed or from a simulated
\* touch.
C4_ReloadResumesSession ==
  (resume.present /\ selectedId # "" /\ status.kind = "ok")
    => /\ activeNfcKey = resume.key
       /\ tagStep = resume.data.tagStep
       /\ tagStepOneDone = resume.data.tagStepOneDone
       /\ tagStepTwoDone = resume.data.tagStepTwoDone
       /\ tagStepMax = resume.data.tagStepMax
       /\ scanTagUid = resume.data.scanTagUid
       /\ scanTagLabel = resume.data.scanTagLabel
       /\ scanMediaPath = resume.data.scanMediaPath
       /\ tagUidMode = resume.data.tagUidMode

C6_SentUidIsValid ==
  \A i \in 1..Len(calls) :
    calls[i].op \in {"claimTag", "markTagWritten"}
      => HasTagUidShape(calls[i].uid)

\* C7: the current step never exceeds the highest unlocked step; a jump to a
\* step above tagStepMax leaves the step as it is, a jump to a step at or
\* below tagStepMax enters it.
C7_StepWithinUnlocked ==
  /\ tagStep <= tagStepMax
  /\ \A index \in 0..2 :
        onChangeStep(index) = IF index <= tagStepMax THEN index ELSE tagStep

\* the operator is back on step 0 with step 2 unlocked
C7_Witness ==
  BannerShown /\ tagStep = 0 /\ tagStepMax = 2 /\ tagStepTwoDone

\* C8: continue on step 0 with a trimmed UID that is not valid sets the
\* inline UID error, stays on step 0 and unlocks nothing; with a valid one
\* it marks step 0 completed, unlocks step 1 and moves to step 1.
C8_ContinueStepZero ==
  [][ContinueStepZero
       => IF HasTagUidShape(trim(scanTagUid))
            THEN /\ tagStepOneDone'
                 /\ tagStepMax' = 1
                 /\ tagStep' = 1
            ELSE /\ tagUidError' = uidInvalidMsg
                 /\ tagStep' = 0
                 /\ tagStepMax' = tagStepMax
                 /\ tagStepOneDone' = tagStepOneDone]_vars

\* continue has rejected the UID of a wizard that never left step 0
C8_Witness ==
  /\ BannerShown
  /\ tagUidError = uidInvalidMsg
  /\ tagStep = 0
  /\ tagStepMax = 0
  /\ ~tagStepOneDone
  /\ ~HasTagUidShape(trim(scanTagUid))

\* C9: a commit runs, and its calls reach the registry, only if it was
\* triggered on step 2 with step 0 and step 1 marked completed.
C9_CommitOnlyFromStepTwo ==
  /\ claim.pc # "idle"
       => claim.step = 2 /\ claim.oneDone /\ claim.twoDone
  /\ calls # <<>> => claim.pc # "idle"

\* a commit is waiting for the answer to its claimTag call
C9_Witness == claim.pc = "claimTag" /\ claim.step = 2

\* the calls of the running commit with the given operation
CallsOf(op) == { i \in 1..Len(calls) : calls[i].op = op }

\* C10: a commit on a UID whose tag is listed with status NEW makes exactly
\* one markTagWritten call and no claimTag call; on a tag listed WRITTEN it
\* makes neither and reports success; a successful commit on a listed tag
\* leaves its status WRITTEN, so a second commit changes nothing.
C10_CommitOnExistingTag ==
  /\ claim.existing = "NEW"
       => /\ CallsOf("claimTag") = {}
          /\ Cardinality(CallsOf("markTagWritten")) =
               IF claim.pc \in {"idle", "markTagWritten"} THEN 0 ELSE 1
  /\ claim.existing = "WRITTEN"
       => /\ CallsOf("claimTag") = {}
          /\ CallsOf("markTagWritten") = {}
          /\ toasts # <<>>
          /\ toasts[1] = Toast("success", "Tag geschrieben.")
          /\ registry[claim.currentUid].status = "WRITTEN"
  /\ ( /\ claim.existing \in {"NEW", "WRITTEN"}
       /\ claim.pc \notin {"idle", "markTagWritten"}
       /\ claim.outcome # "failed" )
       => registry[claim.currentUid].status = "WRITTEN"

\* a commit on a tag listed WRITTEN has finished with success
C10_Witness ==
  /\ claim.pc = "done"
  /\ claim.outcome = "ok"
  /\ claim.existing = "WRITTEN"

\* ------------------------------------------------------------------------
\* C11: a claim the registry rejects
\* ------------------------------------------------------------------------

\* the registry has turned the claimTag call of this commit down, as a
\* duplicate or as an invalid UID
ClaimRejected ==
  /\ claim.pc = "done"
  /\ calls # <<>>
  /\ calls[Len(calls)].op = "claimTag"
  /\ calls[Len(calls)].detail \in {"invalid uid", "uid exists"}

\* C11: when the registry rejects the claim of the working UID, as a
\* duplicate or as an invalid UID, the inline UID validation error of step 0
\* is shown and the wizard is back on step 0; no setTagMedia, assignTag or
\* sendCommand call follows.
C11_RejectedClaimBackToStepZero ==
  ClaimRejected =>
    /\ tagUidError = uidInvalidMsg
    /\ tagStep = 0
    /\ \A i \in 1..Len(calls) :
         calls[i].op \notin {"setTagMedia", "assignTag", "sendCommand"}

\* the part of C11 about the calls alone: nothing follows a rejected claim
C11_NoCallAfterRejectedClaim ==
  ClaimRejected =>
    \A i \in 1..Len(calls) :
      calls[i].op \notin {"setTagMedia", "assignTag", "sendCommand"}

\* ------------------------------------------------------------------------
\* C12: a commit without a media folder
\* ------------------------------------------------------------------------

\* the toasts of a commit that bound the tag: lines 1289 and 1308
BoundToasts ==
  << Toast("success", "Tag geschrieben."), Toast("success", "Tag zugeordnet.") >>

\* handleClaimTagForScan has run to its end with no media folder chosen
NoMediaCommitDone ==
  claim.pc = "done" /\ claim.outcome = "ok" /\ claim.mediaPath = ""

SimulatedCommit == claim.activeNfc.present /\ claim.activeNfc.uid = <<>>

\* C13: during a commit nfc_on with the working UID is sent exactly when the
\* assignment of that commit succeeded and the event had no physical UID; a
\* simulated touch with a chosen media folder reaches the assignment and the
\* command, and the command is not sent for an event with a physical UID.
C13_NfcOnIffSimulatedAssigned ==
  (claim.pc = "done" /\ claim.outcome = "ok") =>
    LET assigned == \E i \in 1..Len(calls) :
                      calls[i].op = "assignTag" /\ calls[i].ok
        sent == \E i \in 1..Len(calls) :
                  /\ calls[i].op = "sendCommand"
                  /\ calls[i].arg = "nfc_on"
                  /\ calls[i].uid = claim.currentUid
    IN /\ sent <=> (assigned /\ SimulatedCommit)
       /\ (SimulatedCommit /\ claim.mediaPath # "" /\ claim.selectedId # "")
            => (assigned /\ sent)

\* the half of C13 that the code keeps: the command follows a successful
\* assignment only
C13_NfcOnOnlyAfterAssign ==
  \A i \in 1..Len(calls) :
    calls[i].op = "sendCommand" =>
      \E j \in 1..(i - 1) : calls[j].op = "assignTag" /\ calls[j].ok

\* ------------------------------------------------------------------------
\* C14: the state after a fully successful commit
\* ------------------------------------------------------------------------

\* the commit has bound the tag and every call of it has succeeded
FullSuccess ==
  /\ claim.pc = "done"
  /\ claim.outcome = "ok"
  /\ shouldAssign(claim)
  /\ \A i \in 1..Len(calls) : calls[i].ok
  /\ \E i \in 1..Len(calls) : calls[i].op = "assignTag"

\* C14: after a fully successful commit the wizard session of that key is
\* cleared (no persisted session with that key remains, the step and the
\* completion flags are reset), the simulated-event placeholder is cleared
\* and the tag list is what the registry holds.
C14_SessionClearedAfterSuccess ==
  FullSuccess =>
    /\ ~(sessionStorage.present
           /\ sessionStorage.key = getNfcKey(claim.activeNfc))
    /\ tagStep = 0
    /\ ~tagStepOneDone
    /\ ~tagStepTwoDone
    /\ simulatedNfc = NoNfc
    /\ tags = registry

\* the parts of C14 that the code keeps: the placeholder is cleared, the
\* wizard fields are emptied and the tag list is read from the registry
C14_ListsRefreshedAfterSuccess ==
  FullSuccess =>
    /\ simulatedNfc = NoNfc
    /\ tags = registry
    /\ scanMediaPath = ""

\* ------------------------------------------------------------------------
\* C20: the working UID a new scan event leaves
\* ------------------------------------------------------------------------

\* the scan detection effect has taken a new unknown event of the status
\* feed in this step, and no persisted session was restored over it
ScanAccepted ==
  /\ lastNfcKeyRef' # lastNfcKeyRef
  /\ lastNfcKeyRef' # <<>>
  /\ tagWizardRestoredRef' = tagWizardRestoredRef

\* C20: when an unknown scan event carries a UID that fails isValidTagUid,
\* the working UID is a freshly generated 10-character UID that satisfies
\* isValidTagUid, the UID mode is 'new' and the auto-replace warning is set;
\* when the scanned UID is valid it is the working UID unchanged, in mode
\* 'keep', with no error.
C20_ScanUidKeptOrReplaced ==
  [][ScanAccepted =>
       LET e == status'.last_nfc IN
       /\ e.present /\ ~e.known
       /\ IF isValidTagUid(e.uid)
            THEN /\ scanTagUid' = e.uid
                 /\ tagUidMode' = "keep"
                 /\ tagUidError' = ""
            ELSE /\ Len(scanTagUid') = 10
                 /\ isValidTagUid(scanTagUid')
                 /\ scanTagUid' # e.uid
                 /\ tagUidMode' = "new"
                 /\ tagUidError' = autoReplaceMsg]_vars

\* the UID "short" has been scanned and replaced
C20_Witness ==
  /\ status.kind = "ok"
  /\ status.last_nfc.present
  /\ status.last_nfc.uid = UidShort
  /\ lastNfcKeyRef = NumStr(status.last_nfc.at) \o <<":">> \o UidShort
  /\ scanTagUid \in GenIds
  /\ tagUidMode = "new"
  /\ tagUidError = autoReplaceMsg

\* the UID "zz99zz99zz" has been scanned and kept
C20_WitnessKept ==
  /\ status.kind = "ok"
  /\ status.last_nfc.present
  /\ status.last_nfc.uid = UidGrimm
  /\ lastNfcKeyRef = NumStr(status.last_nfc.at) \o <<":">> \o UidGrimm
  /\ scanTagUid = UidGrimm
  /\ tagUidMode = "keep"
  /\ tagUidError = ""

\* ------------------------------------------------------------------------
\* C18: a dismissed key stays hidden
\* ------------------------------------------------------------------------

\* C18: once a scan-event key has been recorded as dismissed, the
\* tag-detected banner is not shown for an event with that key in any later
\* state, across status polls and a page reload, until an event with a
\* different key becomes the active event.
C18_DismissedKeyStaysHidden ==
  (hiddenKey # <<>> /\ activeNfcKey = hiddenKey) => ~BannerShown

\* the event of a dismissed key is the active event and the wizard of the
\* key has been restored from the storage
C18_Witness ==
  /\ hiddenKey # <<>>
  /\ activeNfcKey = hiddenKey
  /\ claim.pc = "idle"
  /\ tagWizardRestoredRef = hiddenKey
  /\ sessionStorage.data.dismissedNfcKey = hiddenKey

\* ------------------------------------------------------------------------
\* getNfcKey on its own: the keys of two scan events
\* ------------------------------------------------------------------------

\* the variables of the console and of the commit handler
mainVars ==
  << uiVars, claim, calls, toasts, registry, lastNfc, touches, resume,
     uidArg, uidOk >>

\* the console as it is opened, nothing touched
MainIdle ==
  /\ registry = NoTags
  /\ SetUiInit
  /\ claim = IdleClaim
  /\ calls = <<>>
  /\ toasts = <<>>
  /\ lastNfc = [b \in BoxIds |-> NoNfc]
  /\ touches = 0
  /\ resume = NoSession
  /\ uidArg = <<>>
  /\ uidOk = "unset"

\* timestamps of the compared events (0: no timestamp)
KeyAts == {0, 7}

\* UIDs a reader reports, a colon-separated one among them
KeyUids == { <<>>, <<"0","A">>, <<"0","A",":","F","F">> }

\* hardware UIDs in the form of generateHardwareUid
KeyHardwareUids == { <<>>, <<"0","1">>, <<"F","F",":","0","1">> }

\* the events compared: null, and events that carry the hardware UID in the
\* field hardwareUid (simulated touches) or hardware_uid (status feed)
KeyEvents ==
  { NoNfc }
    \cup { [Nfc(uid, FALSE, hw, at) EXCEPT !.hardware_uid = <<>>] :
             uid \in KeyUids, hw \in KeyHardwareUids, at \in KeyAts }
    \cup { [Nfc(uid, FALSE, <<>>, at) EXCEPT !.hardware_uid = hw] :
             uid \in KeyUids, hw \in KeyHardwareUids, at \in KeyAts }

InitKey ==
  /\ MainIdle
  /\ BlocksIdle
  /\ ReuseIdle
  /\ ModalIdle
  /\ PairIdle
  /\ PollIdle
  /\ keys = NoKeys
  /\ nfcPair \in KeyEvents \X KeyEvents

\* getNfcKey(a), getNfcKey(b)
ComputeKeys ==
  /\ keys.pc = "idle"
  /\ keys' = [pc |-> "done", a |-> getNfcKey(nfcPair[1]),
              b |-> getNfcKey(nfcPair[2])]
  /\ UNCHANGED << mainVars, nfcPair, blockedByBox, blocks, toggles, toggleLog,
                  reuseTagUid, error, reuse, modalVars, pairVars, pollVars >>

NextKey == ComputeKeys

SpecKey == InitKey /\ [][NextKey]_vars

\* the three fields of a scan event that the key is made of
TripleOf(nfc) == << nfc.at, nfc.uid, hardwareOf(nfc) >>

\* C19: getNfcKey returns the empty string for an absent event, and for any
\* two present events the keys are equal if and only if the events have the
\* same at, uid and hardwareUid.
C19_KeyEqualIffSameTriple ==
  keys.pc = "done" =>
    /\ ~nfcPair[1].present => keys.a = <<>>
    /\ ~nfcPair[2].present => keys.b = <<>>
    /\ (nfcPair[1].present /\ nfcPair[2].present) =>
         (keys.a = keys.b <=> TripleOf(nfcPair[1]) = TripleOf(nfcPair[2]))

\* the parts of C19 that the code keeps: '' for an absent event only, and
\* equal keys for equal triples whatever the objects are
C19_SameTripleSameKey ==
  keys.pc = "done" =>
    /\ ~nfcPair[1].present <=> keys.a = <<>>
    /\ ~nfcPair[2].present <=> keys.b = <<>>
    /\ (/\ nfcPair[1].present
        /\ nfcPair[2].present
        /\ TripleOf(nfcPair[1]) = TripleOf(nfcPair[2])) => keys.a = keys.b

\* two events that differ in uid and hardwareUid have been given one key
C19_KeysCollide ==
  /\ keys.pc = "done"
  /\ nfcPair[1].present
  /\ nfcPair[2].present
  /\ nfcPair[1].uid # nfcPair[2].uid
  /\ keys.a = keys.b

\* ------------------------------------------------------------------------
\* The tag matrix: handleToggleTagBlock
\* ------------------------------------------------------------------------

\* clicks on matrix toggles in one behaviour
MaxToggles == 3

\* setTagBlock calls that may be awaiting their response at once
MaxInFlight == 2

\* everything of the console but the toasts
quietVars ==
  << uiVars, claim, calls, registry, lastNfc, touches, resume, uidArg, uidOk >>

\* the block sets the boxes hold when the console is opened
InitialBlocks ==
  { NoBlocks,
    [NoBlocks EXCEPT !["box-42"] = {UidGrimm}],
    [b \in MatrixBoxes |-> {UidGrimm}] }

\* blockedByBox after refreshBlocked: next[boxId] is set for the boxes whose
\* getTagBlocks call succeeded; okBoxes are those boxes
refreshBlocked(held, okBoxes) ==
  [b \in MatrixBoxes |-> IF b \in okBoxes THEN held[b] ELSE {}]

\* the matrix is on the screen: the block sets have been asked for once
InitBlocks ==
  /\ MainIdle
  /\ KeyIdle
  /\ ReuseIdle
  /\ ModalIdle
  /\ PairIdle
  /\ PollIdle
  /\ blocks \in InitialBlocks
  /\ \E okBoxes \in SUBSET MatrixBoxes :
       blockedByBox = refreshBlocked(blocks, okBoxes)
  /\ toggles = <<>>
  /\ toggleLog = <<>>

\* an updater that never takes a UID out of the set
setBlockedByBoxKeeps(prev, boxId, uid, nextBlocked) ==
  [prev EXCEPT ![boxId] = IF nextBlocked THEN @ \cup {uid} ELSE @]

\* the updater given to setBlockedByBox, lines 1653-1661
setBlockedByBox(prev, boxId, uid, nextBlocked) ==
  [prev EXCEPT ![boxId] = IF nextBlocked THEN @ \cup {uid} ELSE @ \ {uid}]

\* a handler that updates blockedByBox whatever the response is
handleToggleTagBlockAlways(prev, t, ok) ==
  setBlockedByBox(prev, t.boxId, t.uid, t.nextBlocked)

\* blockedByBox after handleToggleTagBlock has got its response
handleToggleTagBlock(prev, t, ok) ==
  IF ok THEN setBlockedByBox(prev, t.boxId, t.uid, t.nextBlocked) ELSE prev

\* setTagBlock(boxId, uid, blocked): the block sets of the boxes afterwards
setTagBlock(held, boxId, uid, blocked) ==
  [held EXCEPT ![boxId] = IF blocked THEN @ \cup {uid} ELSE @ \ {uid}]

\* the sequence s without its i-th element
RemoveAt(s, i) == SubSeq(s, 1, i - 1) \o SubSeq(s, i + 1, Len(s))

\* onClick of a matrix toggle: handleToggleTagBlock(box.box_id, tag.uid,
\* !blocked) up to its await
ToggleStart ==
  \E boxId \in MatrixBoxes, uid \in MatrixUids :
    /\ Len(toggles) < MaxInFlight
    /\ Len(toggles) + Len(toggleLog) < MaxToggles
    /\ toggles' = Append(toggles,
                         [boxId |-> boxId, uid |-> uid,
                          nextBlocked |-> uid \notin blockedByBox[boxId]])
    /\ UNCHANGED << quietVars, toasts, nfcPair, keys, blockedByBox, blocks,
                    toggleLog, reuseTagUid, error, reuse, modalVars, pairVars, pollVars >>

\* the response of a setTagBlock call and the rest of the handler
ToggleResponse ==
  \E i \in 1..Len(toggles), detail \in {"ok", Network} :
    LET t == toggles[i]
        ok == detail = "ok"
        after == handleToggleTagBlock(blockedByBox, t, ok)
    IN
    /\ toggles' = RemoveAt(toggles, i)
    /\ blocks' = IF ok THEN setTagBlock(blocks, t.boxId, t.uid, t.nextBlocked)
                 ELSE blocks
    /\ blockedByBox' = after
    /\ toasts' = Append(toasts,
                   IF ~ok THEN Toast("error", detail)
                   ELSE IF t.nextBlocked THEN Toast("success", "Tag gesperrt.")
                   ELSE Toast("success", "Tag freigegeben."))
    /\ toggleLog' = Append(toggleLog,
                      [boxId |-> t.boxId, uid |-> t.uid,
                       blocked |-> t.nextBlocked, ok |-> ok,
                       before |-> blockedByBox, after |-> after])
    /\ UNCHANGED << quietVars, nfcPair, keys, reuseTagUid, error, reuse, modalVars, pairVars, pollVars >>

NextBlocks == ToggleStart \/ ToggleResponse

SpecBlocks == InitBlocks /\ [][NextBlocks]_vars

\* C16: handleToggleTagBlock changes the local block set of a box only after
\* setTagBlock for that box and UID returned success; when the call fails
\* the local block sets of all boxes are what they were before the toggle.
C16_BlockSetChangesOnSuccessOnly ==
  [][/\ blockedByBox' # blockedByBox =>
          /\ Len(toggleLog') = Len(toggleLog) + 1
          /\ toggleLog'[Len(toggleLog')].ok
          /\ \A b \in MatrixBoxes \ {toggleLog'[Len(toggleLog')].boxId} :
               blockedByBox'[b] = blockedByBox[b]
          /\ \A u \in MatrixUids \ {toggleLog'[Len(toggleLog')].uid} :
               \A b \in MatrixBoxes :
                 u \in blockedByBox'[b] <=> u \in blockedByBox[b]
     /\ (/\ Len(toggleLog') = Len(toggleLog) + 1
         /\ ~toggleLog'[Len(toggleLog')].ok) =>
          /\ blockedByBox' = blockedByBox
          /\ blocks' = blocks]_vars

\* a toggle has failed while another had changed the block sets before
C16_Witness ==
  \E i, j \in 1..Len(toggleLog) :
    /\ i < j
    /\ toggleLog[i].ok
    /\ toggleLog[i].after # toggleLog[i].before
    /\ ~toggleLog[j].ok
    /\ toggleLog[j].after = toggleLog[i].after
    /\ toasts[j].severity = "error"

\* entries i and j of the log are acknowledged toggles of one cell, first to
\* blocked, then to not blocked, with no acknowledged toggle between them
BlockedThenFreed(i, j) ==
  /\ i < j
  /\ toggleLog[i].ok /\ toggleLog[j].ok
  /\ toggleLog[i].boxId = toggleLog[j].boxId
  /\ toggleLog[i].uid = toggleLog[j].uid
  /\ toggleLog[i].blocked
  /\ ~toggleLog[j].blocked
  /\ \A k \in (i + 1)..(j - 1) : ~toggleLog[k].ok

UiIs(u) ==
  /\ selectedId = u.selectedId
  /\ status = u.status
  /\ tags = u.tags
  /\ scanTagUid = u.scanTagUid
  /\ tagUidMode = u.tagUidMode
  /\ tagUidError = u.tagUidError
  /\ tagStep = u.tagStep
  /\ tagStepOneDone = u.tagStepOneDone
  /\ tagStepTwoDone = u.tagStepTwoDone
  /\ tagStepMax = u.tagStepMax
  /\ dismissedNfcKey = u.dismissedNfcKey
  /\ scanTagLabel = u.scanTagLabel
  /\ scanMediaPath = u.scanMediaPath
  /\ lastNfcKeyRef = u.lastNfcKeyRef
  /\ tagWizardRestoredRef = u.tagWizardRestoredRef
  /\ simulatedNfc = u.simulatedNfc
  /\ sessionStorage = u.sessionStorage
  /\ hiddenKey = <<>>

\* the unknown touch that has opened the tag-detected card
ReuseEvent == Nfc(UidShort, FALSE, <<>>, 1)

\* a tag pulled from a box's local storage, with or without a media folder
ImportedTags ==
  { [status |-> "IMPORTED", media_path |-> m, box |-> ""] :
      m \in MediaFolders \cup {""} }

\* registries that hold at least one imported tag
ReuseRegistries ==
  { reg \in [RegUids -> ImportedTags \cup {NoTag}] :
      \E u \in RegUids : reg[u].status = "IMPORTED" }

\* the console after box-42 was selected, the tag list was loaded and the
\* status poll has reported ReuseEvent
WizardOpen(reg) ==
  LET opened == [InitialUi(NoSession) EXCEPT !.tags = reg,
                                             !.selectedId = "box-42"]
  IN Flush([opened EXCEPT !.status = OkStatus(ReuseEvent)], opened, TRUE,
           CHOOSE g \in GenIds : TRUE)

InitReuse ==
  /\ KeyIdle
  /\ BlocksIdle
  /\ ReuseIdle
  /\ ModalIdle
  /\ PairIdle
  /\ PollIdle
  /\ registry \in ReuseRegistries
  /\ UiIs(WizardOpen(registry))
  /\ claim = IdleClaim
  /\ calls = <<>>
  /\ toasts = <<>>
  /\ lastNfc = [b \in BoxIds |-> ReuseEvent]
  /\ touches = 1
  /\ resume = NoSession
  /\ uidArg = <<>>
  /\ uidOk = "unset"

\* what the reuse actions leave alone
reuseRest ==
  << claim, lastNfc, touches, resume, uidArg, uidOk, nfcPair, keys,
     blockedByBox, blocks, toggles, toggleLog, modalVars, pairVars, pollVars >>

\* tags.some((tag) => tag.status === 'IMPORTED') inside the tag-detected
\* card: the select and its button are rendered
ReuseCardShown ==
  BannerShown /\ \E u \in RegUids : tags[u].status = "IMPORTED"

\* onChange of the select: setReuseTagUid(event.target.value)
ChooseReuseTag ==
  \E uid \in RegUids :
    /\ reuse.pc = "idle"
    /\ ReuseCardShown
    /\ tags[uid].status = "IMPORTED"
    /\ reuseTagUid' = uid
    /\ UNCHANGED << uiVars, registry, calls, toasts, error, reuse, reuseRest >>

\* deleteTag(uid): the registry afterwards
DeleteTagApply(reg, uid) == [reg EXCEPT ![uid] = NoTag]

\* handleDeleteTag(uid) and handleClearTagMedia(uid) of the tag list, their
\* calls answered at once; listed says that the getTags call succeeded
EditTagList ==
  \E uid \in RegUids, clear \in BOOLEAN, listed \in BOOLEAN,
     detail \in {"ok", Network} :
    LET after == IF clear THEN SetTagMediaApply(registry, uid, "")
                 ELSE DeleteTagApply(registry, uid)
    IN
    /\ reuse.pc = "idle"
    /\ tags[uid].status # "absent"
    /\ calls' = <<>>
    /\ IF detail # "ok"
         THEN /\ error' = detail
              /\ toasts' = << Toast("error", detail) >>
              /\ UNCHANGED << uiVars, registry >>
         ELSE /\ registry' = after
              /\ error' = IF clear THEN "" ELSE error
              /\ toasts' = << Toast("success",
                                    IF clear THEN "Medienzuweisung entfernt."
                                    ELSE "Tag geloescht.") >>
              /\ SetUi(Rendered([Ui EXCEPT !.tags = IF listed THEN after ELSE @],
                                FALSE, <<>>))
    /\ UNCHANGED << reuseTagUid, reuse, reuseRest >>

noMediaMsg == "Tag hat keine Medienzuordnung."

\* a check that only asks for the tag to be listed
reuseRejectedIfAbsent(tag) == tag.status = "absent"

\* !tag || !tag.media_path, tag being NoTag if tags.find found none
reuseRejected(tag) == tag.status = "absent" \/ tag.media_path = ""

\* the message handleReuseImportedTag returns with before any call, "" if
\* it goes on to markTagWritten
reuseRefusal ==
  IF reuseTagUid = <<>> THEN "Bitte eine gespeicherte Tag-ID waehlen."
  ELSE IF selectedId = "" THEN "Bitte zuerst eine Box auswaehlen."
  ELSE IF reuseRejected(tags[reuseTagUid]) THEN noMediaMsg
  ELSE ""

\* the click on 'Vorhandene ID schreiben', up to the first await
ReuseStart ==
  /\ reuse.pc = "idle"
  /\ ReuseCardShown
  /\ calls' = <<>>
  /\ IF reuseRefusal # ""
       THEN /\ error' = reuseRefusal
            /\ toasts' = << Toast("error", reuseRefusal) >>
            /\ reuse' = reuse
       ELSE /\ error' = error
            /\ toasts' = <<>>
            /\ reuse' = [pc |-> "markTagWritten", uid |-> reuseTagUid,
                         selectedId |-> selectedId]
  /\ UNCHANGED << uiVars, registry, reuseTagUid, reuseRest >>

\* const response = await markTagWritten(reuseTagUid)
ReuseMarkTagWrittenResponse ==
  \E detail \in {MarkTagWrittenDetail(registry, reuse.uid), Network} :
    /\ reuse.pc = "markTagWritten"
    /\ calls' = Append(calls, Call("markTagWritten", reuse.uid, "", detail))
    /\ IF detail = "ok"
         THEN /\ registry' = MarkTagWrittenApply(registry, reuse.uid)
              /\ reuse' = [reuse EXCEPT !.pc = "assignTag"]
              /\ UNCHANGED << error, toasts >>
         ELSE /\ registry' = registry
              /\ reuse' = [reuse EXCEPT !.pc = "done"]
              /\ error' = detail
              /\ toasts' = Append(toasts, Toast("error", detail))
    /\ UNCHANGED << uiVars, reuseTagUid, reuseRest >>

\* const assigned = await assignTag(reuseTagUid, selectedId)
\* the registry assigns to paired boxes only
AssignCallDetail(reg, uid, boxId, paired) ==
  IF boxId \in DOMAIN paired /\ paired[boxId] # "PAIRED" THEN "box not paired" ELSE TagCallDetail(reg, uid)

ReuseAssignTagResponse ==
  \E detail \in {AssignCallDetail(registry, reuse.uid, reuse.selectedId,
                                   pairing), Network} :
    /\ reuse.pc = "assignTag"
    /\ calls' = Append(calls, Call("assignTag", reuse.uid, reuse.selectedId,
                                   detail))
    /\ IF detail = "ok"
         THEN /\ registry' = AssignTagApply(registry, reuse.uid,
                                            reuse.selectedId)
              /\ reuse' = [reuse EXCEPT !.pc = "getTags"]
              /\ error' = error
              /\ toasts' = Append(toasts, Toast("success",
                                    "Tag geschrieben und zugeordnet."))
         ELSE /\ registry' = registry
              /\ reuse' = [reuse EXCEPT !.pc = "done"]
              /\ error' = detail
              /\ toasts' = Append(toasts, Toast("error", detail))
    /\ UNCHANGED << uiVars, reuseTagUid, reuseRest >>

\* const updated = await getTags()
ReuseGetTagsResponse ==
  \E detail \in {"ok", Network} :
    /\ reuse.pc = "getTags"
    /\ calls' = Append(calls, Call("getTags", <<>>, "", detail))
    /\ reuse' = [reuse EXCEPT !.pc = "getBoxTags"]
    /\ SetUi(Rendered([Ui EXCEPT !.tags = IF detail = "ok" THEN registry ELSE @],
                      FALSE, <<>>))
    /\ UNCHANGED << registry, toasts, error, reuseTagUid, reuseRest >>

\* const updatedBoxTags = await getBoxTags(selectedId), and lines 1372-1373
ReuseGetBoxTagsResponse ==
  \E detail \in {"ok", Network} :
    /\ reuse.pc = "getBoxTags"
    /\ calls' = Append(calls, Call("getBoxTags", <<>>, reuse.selectedId, detail))
    /\ reuse' = [reuse EXCEPT !.pc = "done"]
    /\ reuseTagUid' = <<>>
    /\ SetUi(Rendered([Ui EXCEPT !.scanTagUid = reuse.uid], FALSE, <<>>))
    /\ UNCHANGED << registry, toasts, error, reuseRest >>

\* the handler has returned and its toasts have expired
ReuseSettled ==
  /\ reuse.pc = "done"
  /\ reuse' = IdleReuse
  /\ calls' = <<>>
  /\ toasts' = <<>>
  /\ UNCHANGED << uiVars, registry, error, reuseTagUid, reuseRest >>

NextReuse ==
  \/ ChooseReuseTag
  \/ EditTagList
  \/ ReuseStart
  \/ ReuseMarkTagWrittenResponse
  \/ ReuseAssignTagResponse
  \/ ReuseGetTagsResponse
  \/ ReuseGetBoxTagsResponse
  \/ ReuseSettled

SpecReuse == InitReuse /\ [][NextReuse]_vars

\* a tag is chosen in the select of the card and it has no media folder in
\* the local tag list, or is not in the list
ReuseUnbound ==
  /\ reuseTagUid # <<>>
  /\ selectedId # ""
  /\ \/ tags[reuseTagUid].status = "absent"
     \/ tags[reuseTagUid].media_path = ""

\* C15: the reuse-imported-tag action on a chosen tag whose media_path is
\* empty, or that is absent from the local tag view, reports an error asking
\* for a media binding and returns before any registry call: no
\* markTagWritten, no assignTag, and no state but the error is changed.
C15_ReuseWithoutMediaRejected ==
  [][(ReuseStart /\ ReuseUnbound) =>
       /\ error' = noMediaMsg
       /\ toasts' = << Toast("error", noMediaMsg) >>
       /\ calls' = <<>>
       /\ reuse' = IdleReuse
       /\ UNCHANGED << uiVars, registry, reuseTagUid, claim >>]_vars

\* the action has been refused for a chosen tag without a media folder
C15_Witness ==
  /\ reuseTagUid # <<>>
  /\ tags[reuseTagUid].status = "IMPORTED"
  /\ tags[reuseTagUid].media_path = ""
  /\ error = noMediaMsg
  /\ toasts = << Toast("error", noMediaMsg) >>
  /\ calls = <<>>
  /\ reuse = IdleReuse

\* the action has been refused for a chosen tag that is no longer listed
C15_WitnessAbsent ==
  /\ reuseTagUid # <<>>
  /\ tags[reuseTagUid].status = "absent"
  /\ error = noMediaMsg
  /\ calls = <<>>
  /\ reuse = IdleReuse

\* no registry call of the reuse action names a tag that the local tag list
\* showed without a media folder when the button was pressed
C15_CallsForBoundTagsOnly ==
  [][(ReuseStart /\ reuse'.pc = "markTagWritten") =>
       /\ tags[reuseTagUid].status # "absent"
       /\ tags[reuseTagUid].media_path # ""]_vars

\* ------------------------------------------------------------------------
\* C21: which status responses (re)initialise the wizard
\* ------------------------------------------------------------------------

\* step, completion flags and working values of the wizard
WizardFields ==
  << scanTagUid, tagUidMode, tagUidError, tagStep, tagStepOneDone,
     tagStepTwoDone, tagStepMax, scanTagLabel, scanMediaPath >>

\* C21: the wizard is (re)initialised for a status-feed event only when the
\* event reports known === false and is not the event already acted on:
\* polls that return the same unknown event never reset step, completion
\* flags or working values, and an event with known === true never starts
\* or resets the wizard.
C21_WizardResetOnNewUnknownEventOnly ==
  [][(StatusResponse /\ WizardFields' # WizardFields) =>
       /\ status'.last_nfc.present
       /\ ~status'.last_nfc.known
       /\ status'.last_nfc # status.last_nfc]_vars

\* an unknown event has been polled, acted on and polled again (the restore
\* effect has seen its stored session) while the wizard is on its last step
C21_Witness ==
  /\ status.kind = "ok"
  /\ status.last_nfc.present
  /\ ~status.last_nfc.known
  /\ lastNfcKeyRef = NumStr(status.last_nfc.at) \o <<":">> \o status.last_nfc.uid
  /\ tagWizardRestoredRef = activeNfcKey
  /\ tagStep = 2
  /\ tagStepMax = 2

\* a known event has been polled while the wizard held progress
C21_WitnessKnown ==
  /\ status.kind = "ok"
  /\ status.last_nfc.present
  /\ status.last_nfc.known
  /\ tagStepMax = 2

\* ------------------------------------------------------------------------
\* C22: the working UID of a simulated touch
\* ------------------------------------------------------------------------

\* 'NFC on' has been pressed with an empty UID field in this step: a touch
\* without a physical UID starts
SimulatedTouchStarts ==
  /\ PlayerNfcOn
  /\ simulatedNfc'.present
  /\ simulatedNfc' # simulatedNfc

\* C22: when a touch without a physical UID is started, the wizard holds a
\* provisional working UID produced by generateTagId, one that satisfies
\* isValidTagUid, and the UID mode is 'new', whatever working UID the wizard
\* held before.
C22_SimulatedTouchGetsGeneratedUid ==
  [][SimulatedTouchStarts =>
       /\ scanTagUid' \in GenIds
       /\ isValidTagUid(scanTagUid')
       /\ tagUidMode' = "new"]_vars

\* the part of C22 that the code keeps: the mode is 'new', and a wizard
\* without a working UID gets a generated one
C22_GeneratedUidIfNoneHeld ==
  [][SimulatedTouchStarts =>
       /\ tagUidMode' = "new"
       /\ scanTagUid = <<>> =>
            (scanTagUid' \in GenIds /\ isValidTagUid(scanTagUid'))]_vars

\* ------------------------------------------------------------------------
\* C23: what the restore effect loads
\* ------------------------------------------------------------------------

\* the wizard values of a persisted session, in the order of WizardFields
StoredFields(item) ==
  << item.data.scanTagUid, item.data.tagUidMode, item.data.tagUidError,
     item.data.tagStep, item.data.tagStepOneDone, item.data.tagStepTwoDone,
     item.data.tagStepMax, item.data.scanTagLabel, item.data.scanMediaPath >>

\* the restore effect has loaded a persisted session in this step
SessionRestored ==
  /\ tagWizardRestoredRef' # tagWizardRestoredRef
  /\ tagWizardRestoredRef' # <<>>

\* C23: session recovery never loads persisted wizard values whose stored
\* key differs from the active scan-event key, and for one active key the
\* wizard state is overwritten from storage at most once: after the restore
\* for the active key, further status polls of that key leave the wizard
\* state untouched.
C23_RestoreForActiveKeyOnce ==
  [][/\ SessionRestored =>
          /\ sessionStorage.present
          /\ sessionStorage.key = activeNfcKey'
          /\ tagWizardRestoredRef' = activeNfcKey'
          /\ WizardFields' = StoredFields(sessionStorage)
     /\ (/\ StatusResponse
         /\ activeNfcKey # <<>>
         /\ tagWizardRestoredRef = activeNfcKey
         /\ activeNfcKey' = activeNfcKey) =>
          /\ WizardFields' = WizardFields
          /\ tagWizardRestoredRef' = tagWizardRestoredRef]_vars

\* the session of the active key has been restored while the wizard was on
\* its second step
C23_Witness ==
  /\ activeNfcKey # <<>>
  /\ tagWizardRestoredRef = activeNfcKey
  /\ sessionStorage.present
  /\ sessionStorage.key = activeNfcKey
  /\ BannerShown
  /\ tagStep = 1
  /\ scanMediaPath # ""

\* ------------------------------------------------------------------------
\* C28: the progress fields of the wizard
\* ------------------------------------------------------------------------

\* C28: in every reachable wizard state step 1 completed implies step 0
\* completed, the highest unlocked step is at least 1 exactly when step 0 is
\* completed, and it is 2 exactly when step 1 is completed.
C28_ProgressFieldsAgree ==
  /\ tagStepTwoDone => tagStepOneDone
  /\ tagStepMax >= 1 <=> tagStepOneDone
  /\ tagStepMax = 2 <=> tagStepTwoDone
  /\ tagStepMax \in 0..2

\* What holds of the progress fields: the third equivalence holds in one
\* direction only, since "Weiter zu Medien" sets the highest unlocked step
\* back to 1 and leaves the completion flag of step 1 alone.
C28_ProgressFieldsAgreeOneWay ==
  /\ tagStepTwoDone => tagStepOneDone
  /\ tagStepMax >= 1 <=> tagStepOneDone
  /\ tagStepMax = 2 => tagStepTwoDone
  /\ tagStepMax \in 0..2

\* ------------------------------------------------------------------------
\* The tag-delete modal: 'Nur Medienzuordnung entfernen' and 'Tag loeschen'
\* ------------------------------------------------------------------------

\* the tag lists the console can show: imported tags, bound or unbound
DeleteViews ==
  { reg \in [RegUids -> ImportedTags \cup {NoTag}] :
      \E u \in RegUids : reg[u].status # "absent" }

\* the console with the tag list loaded and no scan event
TagListOpen(view, boxId) ==
  [InitialUi(NoSession) EXCEPT !.tags = view, !.selectedId = boxId]

\* the registry deletes the tag together with the block entries naming it
DeleteBlocksApply(held, uid) == [b \in MatrixBoxes |-> held[b] \ {uid}]

InitDelete ==
  /\ KeyIdle
  /\ ReuseIdle
  /\ ModalIdle
  /\ PairIdle
  /\ PollIdle
  /\ \E view \in DeleteViews, boxId \in BoxIds \cup {""} :
       /\ UiIs(TagListOpen(view, boxId))
       \* the list is current, or another console has deleted one of its tags
       /\ registry \in {view} \cup { DeleteTagApply(view, u) : u \in RegUids }
  /\ blocks \in { NoBlocks, [NoBlocks EXCEPT !["box-42"] = {UidGrimm}] }
  /\ blockedByBox = refreshBlocked(blocks, MatrixBoxes)
  /\ toggles = <<>>
  /\ toggleLog = <<>>
  /\ claim = IdleClaim
  /\ calls = <<>>
  /\ toasts = <<>>
  /\ lastNfc = [b \in BoxIds |-> NoNfc]
  /\ touches = 0
  /\ resume = NoSession
  /\ uidArg = <<>>
  /\ uidOk = "unset"

modalRest ==
  << claim, lastNfc, touches, resume, uidArg, uidOk, nfcPair, keys,
     toggles, toggleLog, reuseTagUid, reuse, pairVars, pollVars >>

\* the trash button of a listed tag
OpenTagDelete ==
  \E uid \in RegUids :
    /\ deletion.pc = "idle"
    /\ tagDeleteTarget = <<>>
    /\ tags[uid].status # "absent"
    /\ tagDeleteTarget' = uid
    /\ calls' = <<>>
    /\ toasts' = <<>>
    /\ UNCHANGED << uiVars, registry, error, blockedByBox, blocks, deletion,
                    modalRest >>

\* 'Abbrechen'
CancelTagDelete ==
  /\ deletion.pc = "idle"
  /\ tagDeleteTarget # <<>>
  /\ tagDeleteTarget' = <<>>
  /\ UNCHANGED << uiVars, registry, calls, toasts, error, blockedByBox, blocks,
                  deletion, modalRest >>

\* a 'Tag loeschen' handler that goes straight to deleteTag
deleteWithoutClear(button) ==
  IF button = "delete" THEN "deleteTag" ELSE "setTagMedia"

\* both buttons of the modal await handleClearTagMedia first
modalFirstCall(button) == "setTagMedia"

\* what the onClick handler does once handleClearTagMedia has returned:
\* 'Tag loeschen' awaits handleDeleteTag, whatever the clear has answered
afterClearTagMedia(button) == IF button = "delete" THEN "deleteTag" ELSE "close"

ModalButton ==
  \E button \in {"clear", "delete"} :
    /\ deletion.pc = "idle"
    /\ tagDeleteTarget # <<>>
    /\ deletion' = [pc |-> modalFirstCall(button), uid |-> tagDeleteTarget,
                    button |-> button, phase |-> "clear"]
    /\ UNCHANGED << uiVars, registry, calls, toasts, error, blockedByBox,
                    blocks, tagDeleteTarget, modalRest >>

\* handleClearTagMedia: the answer to setTagMedia(uid, '')
ClearTagMediaResponse ==
  \E detail \in {TagCallDetail(registry, deletion.uid), Network} :
    /\ deletion.pc = "setTagMedia"
    /\ calls' = Append(calls, Call("setTagMedia", deletion.uid, "", detail))
    /\ IF detail = "ok"
         THEN /\ registry' = SetTagMediaApply(registry, deletion.uid, "")
              /\ error' = ""
              /\ toasts' = Append(toasts, Toast("success",
                                                "Medienzuweisung entfernt."))
              /\ deletion' = [deletion EXCEPT !.pc = "getTags"]
         ELSE /\ registry' = registry
              /\ error' = detail
              /\ toasts' = Append(toasts, Toast("error", detail))
              /\ deletion' = [deletion EXCEPT
                                !.pc = afterClearTagMedia(deletion.button)]
    /\ UNCHANGED << uiVars, blockedByBox, blocks, tagDeleteTarget, modalRest >>

\* handleDeleteTag: the answer to deleteTag(uid)
DeleteTagResponse ==
  \E detail \in {TagCallDetail(registry, deletion.uid), Network} :
    /\ deletion.pc = "deleteTag"
    /\ calls' = Append(calls, Call("deleteTag", deletion.uid, "", detail))
    /\ IF detail = "ok"
         THEN /\ registry' = DeleteTagApply(registry, deletion.uid)
              /\ blocks' = DeleteBlocksApply(blocks, deletion.uid)
              /\ error' = error
              /\ toasts' = Append(toasts, Toast("success", "Tag geloescht."))
              /\ deletion' = [deletion EXCEPT !.pc = "getTags",
                                              !.phase = "delete"]
         ELSE /\ registry' = registry
              /\ blocks' = blocks
              /\ error' = detail
              /\ toasts' = Append(toasts, Toast("error", detail))
              /\ deletion' = [deletion EXCEPT !.pc = "close",
                                              !.phase = "delete"]
    /\ UNCHANGED << uiVars, blockedByBox, tagDeleteTarget, modalRest >>

\* both handlers re-read the tag list after their call has succeeded
ModalGetTagsResponse ==
  \E detail \in {"ok", Network} :
    /\ deletion.pc = "getTags"
    /\ calls' = Append(calls, Call("getTags", <<>>, "", detail))
    /\ deletion' = [deletion EXCEPT
                      !.pc = IF selectedId # "" THEN "getBoxTags"
                             ELSE "getTagBlocks"]
    /\ SetUi(Rendered([Ui EXCEPT !.tags = IF detail = "ok" THEN registry ELSE @],
                      FALSE, <<>>))
    /\ UNCHANGED << registry, toasts, error, blockedByBox, blocks,
                    tagDeleteTarget, modalRest >>

\* ... the tags of the selected box, if one is selected
ModalGetBoxTagsResponse ==
  \E detail \in {"ok", Network} :
    /\ deletion.pc = "getBoxTags"
    /\ calls' = Append(calls, Call("getBoxTags", <<>>, selectedId, detail))
    /\ deletion' = [deletion EXCEPT !.pc = "getTagBlocks"]
    /\ UNCHANGED << uiVars, registry, toasts, error, blockedByBox, blocks,
                    tagDeleteTarget, modalRest >>

\* ... and the block sets of all boxes; the handler returns to the onClick
ModalGetTagBlocksResponse ==
  \E okBoxes \in SUBSET MatrixBoxes :
    /\ deletion.pc = "getTagBlocks"
    /\ blockedByBox' = refreshBlocked(blocks, okBoxes)
    /\ deletion' = [deletion EXCEPT
                      !.pc = IF deletion.phase = "clear"
                               THEN afterClearTagMedia(deletion.button)
                               ELSE "close"]
    /\ UNCHANGED << uiVars, registry, calls, toasts, error, blocks,
                    tagDeleteTarget, modalRest >>

\* the end of the onClick handler: setTagDeleteTarget(''), setActiveModal('')
ModalClose ==
  /\ deletion.pc = "close"
  /\ deletion' = IdleDeletion
  /\ tagDeleteTarget' = <<>>
  /\ UNCHANGED << uiVars, registry, calls, toasts, error, blockedByBox, blocks,
                  modalRest >>

NextDelete ==
  \/ OpenTagDelete
  \/ CancelTagDelete
  \/ ModalButton
  \/ ClearTagMediaResponse
  \/ DeleteTagResponse
  \/ ModalGetTagsResponse
  \/ ModalGetBoxTagsResponse
  \/ ModalGetTagBlocksResponse
  \/ ModalClose

SpecDelete == InitDelete /\ [][NextDelete]_vars

\* the clear of this uid answered before position j of the call log
ClearedBefore(j) ==
  \E i \in 1..(j - 1) :
    /\ calls[i].op = "setTagMedia"
    /\ calls[i].uid = calls[j].uid
    /\ calls[i].arg = ""

\* C25: deleting a tag from the modal issues setTagMedia(uid, '') and then
\* deleteTag(uid): deleteTag is in flight or answered only when the clear of
\* the same uid has been answered before.
C25_ClearCompletedBeforeDelete ==
  /\ deletion.pc = "deleteTag" =>
       \E i \in 1..Len(calls) :
         /\ calls[i].op = "setTagMedia"
         /\ calls[i].uid = deletion.uid
         /\ calls[i].arg = ""
  /\ \A j \in 1..Len(calls) : calls[j].op = "deleteTag" => ClearedBefore(j)
  /\ deletion.pc # "idle" /\ deletion.button = "delete" =>
       \/ deletion.pc = "setTagMedia"
       \/ \E i \in 1..Len(calls) : calls[i].op = "setTagMedia"

\* a tag has been deleted by the modal, after its media binding was cleared
C25_Witness ==
  \E j \in 1..Len(calls) :
    /\ calls[j].op = "deleteTag"
    /\ calls[j].ok
    /\ ClearedBefore(j)
    /\ registry[calls[j].uid].status = "absent"
    /\ tags[calls[j].uid].status = "absent"

\* C29: deleteTag(uid) is issued only if the preceding clear-media call for
\* that tag succeeded.
C29_DeleteOnlyAfterClearSucceeded ==
  /\ deletion.pc = "deleteTag" =>
       \E i \in 1..Len(calls) :
         /\ calls[i].op = "setTagMedia"
         /\ calls[i].uid = deletion.uid
         /\ calls[i].ok
  /\ \A j \in 1..Len(calls) :
       calls[j].op = "deleteTag" =>
         \E i \in 1..(j - 1) :
           /\ calls[i].op = "setTagMedia"
           /\ calls[i].uid = calls[j].uid
           /\ calls[i].ok

\* the delete answered not-found and its handler has returned
DeleteNotFound(j) ==
  /\ calls[j].op = "deleteTag"
  /\ calls[j].detail = "not found"
  /\ deletion.pc \in {"close", "idle"}

\* C27: when deleteTag is rejected as not-found, the error is reported and the
\* tag list and the tags of the selected box are re-read from the registry.
C27_NotFoundReportedAndReread ==
  \A j \in 1..Len(calls) :
    DeleteNotFound(j) =>
      /\ error = "not found"
      /\ \E t \in 1..Len(toasts) : toasts[t] = Toast("error", "not found")
      /\ \E k \in (j + 1)..Len(calls) : calls[k].op = "getTags"
      /\ selectedId # "" =>
           \E k \in (j + 1)..Len(calls) : calls[k].op = "getBoxTags"

\* What holds: the rejection is reported (error state and an error toast).
C27_NotFoundReported ==
  \A j \in 1..Len(calls) :
    DeleteNotFound(j) =>
      /\ error = "not found"
      /\ \E t \in 1..Len(toasts) : toasts[t] = Toast("error", "not found")

\* ------------------------------------------------------------------------
\* Unpairing a box while it is the selected one
\* ------------------------------------------------------------------------

\* toasts on screen at most when another unpair is started
MaxToasts == 2

pairRest ==
  << uiVars, claim, calls, registry, lastNfc, touches, resume, uidArg, uidOk,
     nfcPair, keys, blockedByBox, blocks, toggles, toggleLog, reuseTagUid,
     reuse, modalVars, pollVars >>

\* the confirm button of the 'Box entfernen' modal, opened for a listed
\* paired box
UnpairStart ==
  \E boxId \in MatrixBoxes :
    /\ unpairing.pc = "idle"
    /\ Len(toasts) < MaxToasts
    /\ boxes[boxId] = "PAIRED"
    /\ unpairing' = [pc |-> "unpairBox", boxId |-> boxId]
    /\ UNCHANGED << pairRest, toasts, error, boxes, pairing >>

\* handleUnpair: the answer to unpairBox(boxId)
UnpairResponse ==
  \E detail \in {"ok", Network} :
    /\ unpairing.pc = "unpairBox"
    /\ IF detail = "ok"
         THEN /\ pairing' = [pairing EXCEPT ![unpairing.boxId] = "UNPAIRED"]
              /\ toasts' = Append(toasts, Toast("success", "Box unpaired."))
              /\ error' = error
              /\ unpairing' = [unpairing EXCEPT !.pc = "getBoxes"]
         ELSE /\ pairing' = pairing
              /\ toasts' = Append(toasts, Toast("error", detail))
              /\ error' = detail
              /\ unpairing' = IdleUnpair
    /\ UNCHANGED << pairRest, boxes >>

\* handleUnpair: the answer to getBoxes()
UnpairGetBoxesResponse ==
  \E detail \in {"ok", Network} :
    /\ unpairing.pc = "getBoxes"
    /\ boxes' = IF detail = "ok" THEN pairing ELSE boxes
    /\ unpairing' = IdleUnpair
    /\ UNCHANGED << pairRest, toasts, error, pairing >>

\* one round of the box-list polling loop
RefreshBoxes ==
  \E detail \in {"ok", Network} :
    /\ boxes' = IF detail = "ok" THEN pairing ELSE boxes
    /\ error' = IF detail = "ok" THEN "" ELSE detail
    /\ UNCHANGED << pairRest, toasts, pairing, unpairing >>

NextPairing ==
  \/ UnpairStart
  \/ UnpairResponse
  \/ UnpairGetBoxesResponse
  \/ RefreshBoxes
  \/ ChooseReuseTag
  \/ ReuseStart
  \/ ReuseMarkTagWrittenResponse
  \/ ReuseAssignTagResponse
  \/ ReuseGetTagsResponse
  \/ ReuseGetBoxTagsResponse
  \/ ReuseSettled

SpecPairing == InitReuse /\ [][NextPairing]_vars

\* handleReuseImportedTag issues assignTag
AssignIssued == reuse.pc # "assignTag" /\ reuse'.pc = "assignTag"

\* C26: assignTag is only issued for a box that is PAIRED in the current box
\* list.
C26_AssignOnlyForPairedBox ==
  [][AssignIssued => boxes'[reuse'.selectedId] = "PAIRED"]_vars

\* What holds: a box is selected from the paired list only, so the box was
\* PAIRED in the list when it was selected; nothing unselects it later.
C26_AssignOnlyForSelectedBox ==
  [][AssignIssued => reuse'.selectedId = selectedId /\ selectedId # ""]_vars

\* ------------------------------------------------------------------------
\* The polling loops: box list, storage, status of the selected box
\* ------------------------------------------------------------------------

\* refresh calls issued by the timers and by selecting a box
MaxPolls == 4

\* the box list before the first answer to getBoxes
NoList == [b \in MatrixBoxes |-> "absent"]

ErrorStatus == [kind |-> "error", last_nfc |-> NoNfc]

\* setInterval handle of a polling effect; active is the closure variable
\* 'active' of the effect run that has set it
Interval(loop, active) == [loop |-> loop, active |-> active]

\* a refresh call awaiting its answer: the loop and effect run it belongs to,
\* its number, and what the backend answers (box list, event on the reader)
Refresh(loop, n, boxId, list, nfc) ==
  [loop |-> loop, active |-> TRUE, n |-> n, box |-> boxId, list |-> list,
   nfc |-> nfc]

ReaderOf(boxId) == IF boxId \in DOMAIN lastNfc THEN lastNfc[boxId] ELSE NoNfc

refreshBoxes(n) == Refresh("boxes", n, "", pairing, NoNfc)

refreshStatus(n, boxId) == Refresh("status", n, boxId, NoList, ReaderOf(boxId))

\* refreshStorage asks for the storage of the boxes of its closure, if any
refreshStorage(n, list) ==
  IF list = NoList THEN {} ELSE { Refresh("storage", n, "", list, NoNfc) }

\* an answer is applied whatever has happened to the effect since
appliedAlways(r) == TRUE

\* 'if (!active) return' after the await of every refresh function
applied(r) == r.active

\* cleanup of an effect: active = false for the calls of its closure
Teardown(reqs, loops) ==
  { IF r.loop \in loops THEN [r EXCEPT !.active = FALSE] ELSE r : r \in reqs }

\* cleanup of an effect: clearInterval(handle)
clearInterval(ts, loops) == { t \in ts : t.loop \notin loops }

InitPoll ==
  /\ MainIdle
  /\ KeyIdle
  /\ BlocksIdle
  /\ ReuseIdle
  /\ ModalIdle
  /\ boxes = NoList
  /\ pairing = AllPaired
  /\ unpairing = IdleUnpair
  /\ mounted = TRUE
  /\ timers = { Interval("boxes", TRUE), Interval("storage", TRUE) }
  /\ issued = 1
  /\ requests = { refreshBoxes(1) }
  /\ boxStorage = {}
  /\ statusFrom = 0
  /\ discarded = {}

pollRest ==
  << claim, calls, toasts, registry, lastNfc, touches, resume, uidArg, uidOk,
     nfcPair, keys, blockedByBox, blocks, toggles, toggleLog, reuseTagUid,
     reuse, modalVars, pairing, unpairing >>

\* a click on a box of the paired list: the status effect is cleaned up and
\* runs again for the new box
SelectPaired ==
  \E b \in MatrixBoxes :
    /\ mounted
    /\ issued < MaxPolls
    /\ boxes[b] = "PAIRED"
    /\ selectedId # b
    /\ SetUi(Rendered([Ui EXCEPT !.selectedId = b], FALSE, <<>>))
    /\ requests' = Teardown(requests, {"status"})
                     \cup { refreshStatus(issued + 1, b) }
    /\ timers' = clearInterval(timers, {"status"})
                   \cup { Interval("status", TRUE) }
    /\ issued' = issued + 1
    /\ UNCHANGED << pollRest, error, boxes, mounted, boxStorage, statusFrom,
                    discarded >>

\* an interval fires
PollTick ==
  \E t \in timers :
    /\ issued < MaxPolls
    /\ issued' = issued + 1
    /\ LET fresh ==
             CASE t.loop = "boxes" -> { refreshBoxes(issued + 1) }
               [] t.loop = "status" -> { refreshStatus(issued + 1, selectedId) }
               [] t.loop = "storage" -> refreshStorage(issued + 1, boxes)
       IN requests' = requests
                        \cup { [r EXCEPT !.active = t.active] : r \in fresh }
    /\ boxStorage' = IF t.loop = "storage" /\ boxes = NoList /\ t.active
                       THEN {} ELSE boxStorage
    /\ UNCHANGED << uiVars, pollRest, error, boxes, mounted, timers, statusFrom,
                    discarded >>

\* an answer arrives after the cleanup of its effect
PollDiscard ==
  \E r \in requests :
    /\ ~applied(r)
    /\ requests' = requests \ {r}
    /\ discarded' = discarded \cup {r}
    /\ UNCHANGED << uiVars, pollRest, error, boxes, mounted, timers, issued,
                    boxStorage, statusFrom >>

\* refreshBoxes after the await; a new box list runs the storage effect again
BoxesResponse ==
  \E r \in requests, detail \in {"ok", Network} :
    /\ r.loop = "boxes"
    /\ applied(r)
    /\ error' = IF detail = "ok" THEN "" ELSE detail
    /\ boxes' = IF detail = "ok" THEN r.list ELSE boxes
    /\ IF detail = "ok"
         THEN /\ requests' = Teardown(requests \ {r}, {"storage"})
                               \cup refreshStorage(issued + 1, r.list)
              /\ timers' = clearInterval(timers, {"storage"})
                             \cup { Interval("storage", TRUE) }
              /\ issued' = issued + 1
         ELSE /\ requests' = requests \ {r}
              /\ UNCHANGED << timers, issued >>
    /\ UNCHANGED << uiVars, pollRest, mounted, boxStorage, statusFrom,
                    discarded >>

\* refreshStorage after the await
StorageResponse ==
  \E r \in requests :
    /\ r.loop = "storage"
    /\ applied(r)
    /\ requests' = requests \ {r}
    /\ boxStorage' = { b \in MatrixBoxes : r.list[b] # "absent" }
    /\ UNCHANGED << uiVars, pollRest, error, boxes, mounted, timers, issued,
                    statusFrom, discarded >>

\* refreshStatus after the await
PollStatusResponse ==
  \E r \in requests, detail \in {"ok", Network}, gen \in GenIds :
    /\ r.loop = "status"
    /\ applied(r)
    /\ requests' = requests \ {r}
    /\ statusFrom' = r.n
    /\ SetUi(Rendered([Ui EXCEPT !.status = IF detail = "ok"
                                              THEN OkStatus(r.nfc)
                                              ELSE ErrorStatus],
                      TRUE, gen))
    /\ UNCHANGED << pollRest, error, boxes, mounted, timers, issued,
                    boxStorage, discarded >>

\* App unmounts: every effect is cleaned up
Unmount ==
  /\ mounted
  /\ mounted' = FALSE
  /\ requests' = Teardown(requests, {"boxes", "storage", "status"})
  /\ timers' = clearInterval(timers, {"boxes", "storage", "status"})
  /\ UNCHANGED << uiVars, pollRest, error, boxes, issued, boxStorage,
                  statusFrom, discarded >>

NextPoll ==
  \/ SelectPaired
  \/ PollTick
  \/ PollDiscard
  \/ BoxesResponse
  \/ StorageResponse
  \/ PollStatusResponse
  \/ Unmount
  \/ Touch

SpecPoll == InitPoll /\ [][NextPoll]_vars

\* an answer to a call of a torn-down loop has just arrived
LateAnswer(r) == r \in requests /\ r \notin requests' /\ ~r.active

\* C24: after the teardown of a polling loop its interval is cleared and an
\* answer still in flight changes neither status nor box list nor storage
\* state; no answer for a box other than the selected one sets the status.
C24_TornDownLoopIsSilent ==
  [][/\ \A r \in requests :
          LateAnswer(r) =>
            status' = status /\ boxes' = boxes /\ boxStorage' = boxStorage
     /\ \A r \in requests :
          (r \notin requests' /\ r.loop = "status" /\ r.box # selectedId) =>
            status' = status
     /\ \A t \in timers' : t.active
     /\ ~mounted' => timers' = {}
     /\ \A t \in timers' : t.loop = "status" => selectedId' # ""]_vars

\* box-43 is selected and shows its own status; the answer with the event of
\* box-42, selected before, has arrived and was dropped
C24_Witness ==
  /\ selectedId = "box-43"
  /\ status.kind = "ok"
  /\ ~status.last_nfc.present
  /\ statusFrom > 0
  /\ \E r \in discarded :
       /\ r.loop = "status"
       /\ r.box = "box-42"
       /\ r.nfc.present
       /\ r.n < statusFrom

\* C30: the status is always set from the most recently issued status poll
\* among the answered ones: the number of the poll the status comes from
\* never goes down.
C30_StatusFromLatestAnsweredPoll == [][statusFrom' >= statusFrom]_vars

\* What holds: an answer is applied only for the box that is selected.
C30_StatusOfSelectedBoxOnly ==
  [][statusFrom' # statusFrom =>
       \E r \in requests : r.n = statusFrom' /\ r.box = selectedId]_vars

\* The consequence C30 names: an event that a later answer has superseded
\* does not become the current event again (and start the wizard anew). It
\* fails with the same run: the answer of the earlier poll arrives last.
C30_SupersededEventNotShownAgain ==
  [][(status.last_nfc.present /\ status'.last_nfc.present) =>
       status'.last_nfc.at >= status.last_nfc.at]_vars

====
